---- MODULE Spec2Model ----
(***************************************************************************)
(* A model of AdvancedDataValidator (src/advanced_validator.py): the       *)
(* detectors that scan a table, the issue list they append to, and the     *)
(* report that _generate_validation_report builds from that list.          *)
(*                                                                         *)
(* Tables.  A table (pandas DataFrame) is a record                         *)
(*     [cols |-> sequence of column names, n |-> number of records,        *)
(*      data |-> sequence of columns, each a sequence of n cells]          *)
(* with a default RangeIndex; record index i of the model is pandas index  *)
(* i - 1.  A column name and a text cell are sequences of one-character    *)
(* strings, so that lower(), strip(), substring tests and \D removal are   *)
(* computed and not assumed.  A cell is one of                             *)
(*     NA          absent (NaN / None)                                     *)
(*     Str(s)      text that is not a date                                 *)
(*     Num(v)      an integer                                              *)
(*     Date(y,m,d) text "YYYY-MM-DD" (pd.to_datetime parses it)            *)
(***************************************************************************)
EXTENDS Integers, Sequences, FiniteSets, TLC

VARIABLES
    df,        \* the table passed to validate_dataset (the caller's object)
    dfAtCall,  \* history: the table as it was when validate_dataset was called
    issues,    \* self.issues
    founding,  \* self.company_founding_year
    pc,        \* position inside validate_dataset, "idle" outside a call
    clock,     \* index into NowDates: what datetime.now() returns
    reads,     \* history: the clock values the current call has read
    result,    \* what the latest call returned: a report, a fault, or None
    last,      \* history: the outcome of the call before the latest one
    caller     \* who calls: "ui" (one validator per run) or "harness" (reuse)

vars == <<df, dfAtCall, issues, founding, pc, clock, reads, result, last, caller>>

----------------------------------------------------------------------------
(* Cells *)

NA == [k |-> "na"]
Str(s) == [k |-> "str", s |-> s]
Num(v) == [k |-> "num", v |-> v]
Date(y, m, d) == [k |-> "date", y |-> y, m |-> m, d |-> d]

\* pd.isna / Series.dropna / Series.notna
IsNA(v) == v.k = "na"

----------------------------------------------------------------------------
(* Sequences *)

Range(s) == {s[i] : i \in 1..Len(s)}

Max(a, b) == IF a >= b THEN a ELSE b

\* The indices 1..n that satisfy P, ascending: df[mask].index.tolist()
Where(n, P(_)) == SelectSeq([i \in 1..n |-> i], P)

\* s[:k], DataFrame.head(k)
Take(s, k) == SubSeq(s, 1, IF Len(s) < k THEN Len(s) ELSE k)

\* num / den rounded to the nearest integer, a tie to the even one: what
\* round(), Series.round() and the .1f format compute on the quotients that
\* occur here (den > 0)
RoundHalfEven(num, den) ==
    LET a == IF num < 0 THEN -num ELSE num
        q == a \div den
        r == a % den
        v == IF 2 * r > den \/ (2 * r = den /\ q % 2 = 1) THEN q + 1 ELSE q
    IN  IF num < 0 THEN -v ELSE v

RECURSIVE Concat(_)
\* list.extend over a sequence of lists
Concat(ss) == IF ss = <<>> THEN <<>> ELSE ss[1] \o Concat(Tail(ss))

RECURSIVE SumSeq(_)
SumSeq(s) == IF s = <<>> THEN 0 ELSE s[1] + SumSeq(Tail(s))

\* Series.unique(): the distinct values in order of first appearance
Unique(s) ==
    LET first == SelectSeq([i \in 1..Len(s) |-> i],
                           LAMBDA i : \A j \in 1..(i - 1) : s[j] # s[i])
    IN  [p \in 1..Len(first) |-> s[first[p]]]

CountOf(s, v) == Cardinality({i \in 1..Len(s) : s[i] = v})

\* Series.value_counts() of the non-absent values of s: the distinct values,
\* most frequent first; equal counts keep the order of first appearance
\* (the hash table yields keys in insertion order and the sort is stable on
\* the short inputs considered here).  Each entry is <<value, count>>.
ValueCounts(s) ==
    LET present == SelectSeq(s, LAMBDA v : ~IsNA(v))
        u == Unique(present)
        m == Len(u)
        cnt(p) == CountOf(present, u[p])
        rank(p) == 1 + Cardinality({q \in 1..m :
                        cnt(q) > cnt(p) \/ (cnt(q) = cnt(p) /\ q < p)})
    IN  [r \in 1..m |-> LET p == CHOOSE p \in 1..m : rank(p) = r
                        IN  <<u[p], cnt(p)>>]

----------------------------------------------------------------------------
(* Text *)

UpperCase == <<"A","B","C","D","E","F","G","H","I","J","K","L","M",
               "N","O","P","Q","R","S","T","U","V","W","X","Y","Z">>
LowerCase == <<"a","b","c","d","e","f","g","h","i","j","k","l","m",
               "n","o","p","q","r","s","t","u","v","w","x","y","z">>
Digit == {"0","1","2","3","4","5","6","7","8","9"}
Whitespace == {" ", "\t", "\n", "\r"}

\* The lowercase letter of each uppercase letter
ToLower ==
    [c \in {UpperCase[i] : i \in 1..26} |->
        LowerCase[CHOOSE i \in 1..26 : UpperCase[i] = c]]

LowerChar(c) == IF c \in DOMAIN ToLower THEN ToLower[c] ELSE c

\* str.lower()
Lower(s) == [i \in 1..Len(s) |-> LowerChar(s[i])]

\* str.strip()
Strip(s) ==
    LET keep == {i \in 1..Len(s) : s[i] \notin Whitespace}
    IN  IF keep = {} THEN <<>>
        ELSE LET lo == CHOOSE i \in keep : \A j \in keep : i <= j
                 hi == CHOOSE i \in keep : \A j \in keep : i >= j
             IN  SubSeq(s, lo, hi)

\* sub in s
Contains(sub, s) ==
    \E i \in 0..(Len(s) - Len(sub)) : SubSeq(s, i + 1, i + Len(sub)) = sub

\* re.sub(r'\D', '', s)
DigitsOnly(s) == SelectSeq(s, LAMBDA c : c \in Digit)

----------------------------------------------------------------------------
(* Dates *)

\* Days from 1970-01-01 to the civil date y-m-d (proleptic Gregorian), the
\* day arithmetic behind Timestamp subtraction and Timedelta.days.
DayNumber(y, m, d) ==
    LET yy  == IF m <= 2 THEN y - 1 ELSE y
        era == yy \div 400
        yoe == yy - era * 400
        mp  == IF m > 2 THEN m - 3 ELSE m + 9
        doy == (153 * mp + 2) \div 5 + d - 1
        doe == yoe * 365 + yoe \div 4 - yoe \div 100 + doy
    IN  era * 146097 + doe - 719468

Day(v) == DayNumber(v.y, v.m, v.d)

\* NaT; pd.isna(NaT) is true, so it is the absent cell
NaT == NA

\* to_datetime that turns text it cannot parse into the epoch, not NaT
ToDatetimeJunkEpoch(v) ==
    IF /\ v.k = "date"
       /\ Day(v) > DayNumber(1677, 9, 21)
       /\ Day(v) <= DayNumber(2262, 4, 11)
    THEN v
    ELSE IF v.k = "na" THEN NaT
    ELSE Date(1970, 1, 1)

\* pd.to_datetime(x, errors='coerce') of one cell: text in date form becomes
\* that date at midnight; other text and absent cells become NaT; so does a
\* date outside the range of a nanosecond Timestamp (1677-09-21 .. 2262-04-11).
\* A number of a numeric column is that many nanoseconds after the epoch,
\* which for the numbers considered is a time of 1970-01-01.
ToDatetime(v) ==
    IF /\ v.k = "date"
       /\ Day(v) > DayNumber(1677, 9, 21)
       /\ Day(v) <= DayNumber(2262, 4, 11)
    THEN v
    ELSE IF v.k = "num" THEN Date(1970, 1, 1)
    ELSE NaT

\* The difference of two datetime64[ns] values is a timedelta64[ns], 64 bits
\* of nanoseconds: pandas raises OverflowError when the difference of some
\* pair of present values is beyond 2^63 - 1 ns, which is 106751 days and
\* not quite one more
TimedeltaOverflows(days) == days > 106751 \/ days < -106751

----------------------------------------------------------------------------
(* Columns *)

ColEmail == <<"e","m","a","i","l">>
ColAge   == <<"a","g","e">>
TxtPhone == <<"p","h","o","n","e">>
TxtDate  == <<"d","a","t","e">>
TxtDob   == <<"d","o","b">>
TxtBirth == <<"b","i","r","t","h">>
TxtBirthDate  == <<"b","i","r","t","h","_","d","a","t","e">>
TxtBirthdate  == <<"b","i","r","t","h","d","a","t","e">>
TxtJoin  == <<"j","o","i","n">>
TxtHire  == <<"h","i","r","e">>
TxtStart == <<"s","t","a","r","t">>

\* name in df.columns
HasCol(t, name) == \E c \in 1..Len(t.cols) : t.cols[c] = name

\* df[name]: the column as a sequence of cells
Col(t, name) == t.data[CHOOSE c \in 1..Len(t.cols) : t.cols[c] = name]

\* [col for col in df.columns if P(col)]
ColsWhere(t, P(_)) == SelectSeq(t.cols, P)

\* 'phone' in col, without col.lower()
IsPhoneColExact(c) == Contains(TxtPhone, c)

IsPhoneCol(c) == Contains(TxtPhone, Lower(c))
IsDateCol(c) ==
    \/ Contains(TxtDate, Lower(c))
    \/ Lower(c) \in {TxtDob, TxtBirthDate, TxtBirthdate}
IsJoinCol(c) ==
    \/ Contains(TxtJoin, Lower(c))
    \/ Contains(TxtHire, Lower(c))
    \/ Contains(TxtStart, Lower(c))
IsBirthCol(c) == Contains(TxtBirth, Lower(c)) \/ Contains(TxtDob, Lower(c))

\* The dtype pandas infers for a column: object when it has no rows or holds
\* any text, float64/int64 (here "number") when every cell is a number or
\* absent.
Dtype(col) ==
    IF col = <<>> \/ \E i \in 1..Len(col) : col[i].k \in {"str", "date"}
    THEN "object"
    ELSE "number"

\* Two decimal digits of n
Dec2(n) ==
    LET dig == <<"0","1","2","3","4","5","6","7","8","9">>
    IN  <<dig[((n \div 10) % 10) + 1], dig[(n % 10) + 1]>>

\* str(x) of a text cell; a date cell is the text "YYYY-MM-DD"
Text(v) ==
    IF v.k = "str" THEN v.s
    ELSE Dec2(v.y \div 100) \o Dec2(v.y) \o <<"-">> \o Dec2(v.m)
         \o <<"-">> \o Dec2(v.d)

----------------------------------------------------------------------------
(* Issues *)

\* ValidationIssue.  category is the rule's name with, for a per-column
\* rule, the column it was applied to; description holds the numbers its
\* template is filled with; an example row is given by its record index.
Issue(rule, col, sev, desc, affected, examples, count, rec) ==
    [category |-> <<rule, col>>, severity |-> sev, description |-> desc,
     affected_records |-> affected, examples |-> examples, count |-> count,
     recommendation |-> rec]

NoCol == <<>>


----------------------------------------------------------------------------
(* Normalizers *)

\* df['email'].str.lower() alone, the blanks around the text kept
NormalizeEmailNoStrip(v) ==
    CASE v.k = "str"  -> Str(Lower(v.s))
      [] v.k = "date" -> v
      [] OTHER        -> NA

\* df['email'].str.lower().str.strip() of one cell: text is lowercased and
\* stripped (a date's text has neither letters nor blanks), anything else in
\* an object column becomes NaN.
NormalizeEmail(v) ==
    CASE v.k = "str"  -> Str(Strip(Lower(v.s)))
      [] v.k = "date" -> v
      [] OTHER        -> NA

\* Series.str raises AttributeError unless the column holds text
StrAccessorFaults(col) == Dtype(col) # "object"

\* The area codes of the US numbering plan that the tables considered use;
\* 555 is not an assigned area code.
AreaCodes == {<<"2","0","2">>, <<"4","1","5">>}

\* The national number phonenumbers.parse(s, "US") extracts: the digits, less
\* the country code 1 of an eleven-digit number.
NationalNumber(s) ==
    LET d == DigitsOnly(s)
    IN  IF Len(d) = 11 /\ d[1] = "1" THEN Tail(d) ELSE d

\* parse succeeds and phonenumbers.is_valid_number holds: ten digits, an
\* assigned area code, an exchange that starts with 2..9.  (Numbers written
\* with another country code than +1 are outside the tables considered.)
IsValidUS(s) ==
    LET nsn == NationalNumber(s)
    IN  /\ Len(nsn) = 10
        /\ SubSeq(nsn, 1, 3) \in AreaCodes
        /\ nsn[4] \notin {"0", "1"}

\* The loop without parse and format: the value as it is written
NormalizePhoneRaw(v) ==
    IF IsNA(v) THEN NA ELSE Str(Text(v))

\* The loop appending digits_only even when it is the empty string
NormalizePhoneKeepEmpty(v) ==
    IF IsNA(v) THEN NA
    ELSE IF IsValidUS(Text(v)) THEN Str(<<"+", "1">> \o NationalNumber(Text(v)))
    ELSE Str(DigitsOnly(Text(v)))

\* One pass of the loop of _check_duplicate_phones: E.164 for a valid
\* number; otherwise (invalid, or NumberParseException) the digits alone,
\* and None when there are none.
NormalizePhone(v) ==
    IF IsNA(v) THEN NA
    ELSE IF IsValidUS(Text(v)) THEN Str(<<"+", "1">> \o NationalNumber(Text(v)))
    ELSE IF DigitsOnly(Text(v)) # <<>> THEN Str(DigitsOnly(Text(v)))
    ELSE NA

----------------------------------------------------------------------------
(* Duplicate-identity detectors *)

RecDupEmail == "Review duplicate emails for data entry errors or legitimate shared accounts. Consider implementing unique email constraints."
RecDupPhone == "Review duplicate phone numbers for data entry errors or shared contact information. Consider business rules for shared phones."
RecOverlap == "These may be legitimate duplicates or data entry errors. Review for consolidation opportunities."

\* One issue for each group of value_counts with count > 1, appended inside
\* the loop over the groups
DuplicateIssuePerGroup(n, normalized, rule, col, rec) ==
    LET vc == ValueCounts(normalized)
        duplicates == SelectSeq(vc, LAMBDA e : e[2] > 1)
        group(g) == Where(n, LAMBDA i : normalized[i] = duplicates[g][1])
    IN  [g \in 1..Len(duplicates) |->
            Issue(rule, col, "HIGH", <<1>>, group(g),
                  << [key |-> duplicates[g][1], count |-> duplicates[g][2],
                      records |-> Take(group(g), 3)] >>,
                  Len(group(g)), rec)]

\* The issue both duplicate detectors build from the normalized column:
\* the groups of value_counts with count > 1, in that order.
DuplicateIssue(n, normalized, rule, col, rec) ==
    LET vc == ValueCounts(normalized)
        duplicates == SelectSeq(vc, LAMBDA e : e[2] > 1)
        group(g) == Where(n, LAMBDA i : normalized[i] = duplicates[g][1])
        affected == Concat([g \in 1..Len(duplicates) |-> group(g)])
        examples == [g \in 1..Len(duplicates) |->
                        [key |-> duplicates[g][1], count |-> duplicates[g][2],
                         records |-> Take(group(g), 3)]]
    IN  IF Len(duplicates) > 0
        THEN << Issue(rule, col, "HIGH", <<Len(duplicates)>>, affected,
                      Take(examples, 5), Len(affected), rec) >>
        ELSE << >>

check_duplicate_emails(t) ==
    IF ~HasCol(t, ColEmail) THEN << >>
    ELSE DuplicateIssue(t.n,
                        [i \in 1..t.n |-> NormalizeEmail(Col(t, ColEmail)[i])],
                        "Duplicate Email Addresses", NoCol, RecDupEmail)

check_duplicate_phones(t, phone_column) ==
    IF ~HasCol(t, phone_column) THEN << >>
    ELSE DuplicateIssue(t.n,
                        [i \in 1..t.n |-> NormalizePhone(Col(t, phone_column)[i])],
                        "Duplicate Phone Numbers", phone_column, RecDupPhone)

\* The overlaps list of _check_contact_overlap: one entry per email value
\* held by several records and per phone column in which those records hold
\* exactly one distinct non-absent value.
ContactOverlaps(t) ==
    LET emails == Col(t, ColEmail)
        phone_columns == ColsWhere(t, IsPhoneCol)
        keys == SelectSeq(Unique(emails), LAMBDA e : ~IsNA(e))
        records(e) == Where(t.n, LAMBDA i : emails[i] = e)
        phones(e, pc_) ==
            Unique(SelectSeq([r \in 1..Len(records(e)) |->
                                 Col(t, pc_)[records(e)[r]]],
                             LAMBDA v : ~IsNA(v)))
        forEmail(e) ==
            IF Len(records(e)) > 1
            THEN LET hit == SelectSeq(phone_columns,
                                      LAMBDA pc_ : Len(phones(e, pc_)) = 1)
                 IN  [h \in 1..Len(hit) |->
                        [email |-> e, phone |-> phones(e, hit[h])[1],
                         phone_column |-> hit[h],
                         record_count |-> Len(records(e)),
                         indices |-> records(e)]]
            ELSE << >>
    IN  Concat([k \in 1..Len(keys) |-> forEmail(keys[k])])

\* affected_records of the contact-overlap issue: the indices of every
\* overlap entry, appended one entry after the other.
OverlapAffected(overlaps) ==
    Concat([o \in 1..Len(overlaps) |-> overlaps[o].indices])

check_contact_overlap(t) ==
    IF ~HasCol(t, ColEmail) THEN << >>
    ELSE IF ColsWhere(t, IsPhoneCol) = << >> THEN << >>
    ELSE LET overlaps == ContactOverlaps(t)
             affected == OverlapAffected(overlaps)
         IN  IF overlaps # << >>
             THEN << Issue("Complete Contact Information Overlap", NoCol,
                           "MEDIUM", <<Len(overlaps)>>, affected,
                           Take(overlaps, 5), Len(affected), RecOverlap) >>
             ELSE << >>

\* _detect_duplicate_identities raises when df['email'].str does
DuplicateIdentitiesFault(t) ==
    HasCol(t, ColEmail) /\ StrAccessorFaults(Col(t, ColEmail))

detect_duplicate_identities(t) ==
    LET phone_columns == ColsWhere(t, IsPhoneCol)
    IN  check_duplicate_emails(t)
        \o Concat([c \in 1..Len(phone_columns) |->
                     check_duplicate_phones(t, phone_columns[c])])
        \o check_contact_overlap(t)


----------------------------------------------------------------------------
(* Pattern-anomaly detectors *)

RecAgeRounding == "Review age data collection process. Consider if ages were estimated rather than calculated from birthdates."
RecAgeCluster == "Investigate why this specific age is so common. May indicate default value usage or data entry errors."
RecJan1 == "Review data collection process. January 1st clustering often indicates missing or unknown dates filled with defaults."
RecDateCluster == "Investigate clustering around this specific date. May indicate bulk data imports or system-generated dates."

RoundedAgePercent == 40
AgeClusterDivisor == 10
AgeClusterUnique == 10
Jan1Percent == 20
DateClusterDivisor == 20
DateClusterUnique == 20
ExampleRows == 10

\* ages % 5 raises TypeError when a non-absent age is text
AgePatternsFault(t) ==
    /\ HasCol(t, ColAge)
    /\ \E i \in 1..t.n : Col(t, ColAge)[i].k \in {"str", "date"}

\* The rounding test with >= 40 in place of > 40
analyze_age_patternsAtLeast(t) ==
    LET age == Col(t, ColAge)
        ages == SelectSeq(age, LAMBDA v : ~IsNA(v))
        rounded == Where(t.n, LAMBDA i : ~IsNA(age[i]) /\ age[i].v % 5 = 0)
        \* rounded_percentage > 40, and its .1f rendering in tenths
        roundedIssue ==
            IF Len(rounded) * 100 >= RoundedAgePercent * Len(ages)
            THEN << Issue("Suspicious Age Rounding", NoCol, "MEDIUM",
                          <<RoundHalfEven(Len(rounded) * 1000, Len(ages))>>,
                          rounded, Take(rounded, ExampleRows), Len(rounded),
                          RecAgeRounding) >>
            ELSE << >>
        age_counts == ValueCounts(age)
        max_count == age_counts[1][2]
        most_common_age == age_counts[1][1]
        same == Where(t.n, LAMBDA i : age[i] = most_common_age)
        \* max_count > len(ages) * 0.1 and total_unique_ages > 10
        clusterIssue ==
            IF /\ max_count * AgeClusterDivisor > Len(ages)
               /\ Len(age_counts) > AgeClusterUnique
            THEN << Issue("Excessive Age Clustering", NoCol, "MEDIUM",
                          <<most_common_age.v, max_count,
                            RoundHalfEven(max_count * 1000, Len(ages))>>,
                          same, Take(same, ExampleRows), max_count,
                          RecAgeCluster) >>
            ELSE << >>
    IN  IF ~HasCol(t, ColAge) THEN << >>
        ELSE IF Len(ages) = 0 THEN << >>
        ELSE roundedIssue \o clusterIssue

analyze_age_patterns(t) ==
    LET age == Col(t, ColAge)
        ages == SelectSeq(age, LAMBDA v : ~IsNA(v))
        rounded == Where(t.n, LAMBDA i : ~IsNA(age[i]) /\ age[i].v % 5 = 0)
        \* rounded_percentage > 40, and its .1f rendering in tenths
        roundedIssue ==
            IF Len(rounded) * 100 > RoundedAgePercent * Len(ages)
            THEN << Issue("Suspicious Age Rounding", NoCol, "MEDIUM",
                          <<RoundHalfEven(Len(rounded) * 1000, Len(ages))>>,
                          rounded, Take(rounded, ExampleRows), Len(rounded),
                          RecAgeRounding) >>
            ELSE << >>
        age_counts == ValueCounts(age)
        max_count == age_counts[1][2]
        most_common_age == age_counts[1][1]
        same == Where(t.n, LAMBDA i : age[i] = most_common_age)
        \* max_count > len(ages) * 0.1 and total_unique_ages > 10
        clusterIssue ==
            IF /\ max_count * AgeClusterDivisor > Len(ages)
               /\ Len(age_counts) > AgeClusterUnique
            THEN << Issue("Excessive Age Clustering", NoCol, "MEDIUM",
                          <<most_common_age.v, max_count,
                            RoundHalfEven(max_count * 1000, Len(ages))>>,
                          same, Take(same, ExampleRows), max_count,
                          RecAgeCluster) >>
            ELSE << >>
    IN  IF ~HasCol(t, ColAge) THEN << >>
        ELSE IF Len(ages) = 0 THEN << >>
        ELSE roundedIssue \o clusterIssue

\* The clustering test made only when the January test found nothing
analyze_date_clusteringEither(t, date_column) ==
    LET parsed == [i \in 1..t.n |-> ToDatetime(Col(t, date_column)[i])]
        dates == SelectSeq(parsed, LAMBDA v : ~IsNA(v))
        isJan1(v) == ~IsNA(v) /\ v.m = 1 /\ v.d = 1
        jan_1 == Where(t.n, LAMBDA i : isJan1(parsed[i]))
        jan1Issue ==
            IF Len(jan_1) * 100 > Jan1Percent * Len(dates)
            THEN << Issue("Suspicious Date Clustering - January 1st",
                          date_column, "MEDIUM",
                          <<RoundHalfEven(Len(jan_1) * 1000, Len(dates))>>,
                          jan_1, Take(jan_1, ExampleRows), Len(jan_1),
                          RecJan1) >>
            ELSE << >>
        date_counts == ValueCounts(parsed)
        max_count == date_counts[1][2]
        most_common_date == date_counts[1][1]
        same == Where(t.n, LAMBDA i : parsed[i] = most_common_date)
        \* max_count > len(dates) * 0.05 and len(date_counts) > 20
        clusterIssue ==
            IF /\ max_count * DateClusterDivisor > Len(dates)
               /\ Len(date_counts) > DateClusterUnique
            THEN << Issue("Excessive Date Clustering", date_column, "MEDIUM",
                          <<most_common_date, max_count,
                            RoundHalfEven(max_count * 1000, Len(dates))>>,
                          same, Take(same, ExampleRows), max_count,
                          RecDateCluster) >>
            ELSE << >>
    IN  IF ~HasCol(t, date_column) THEN << >>
        ELSE IF Len(dates) = 0 THEN << >>
        ELSE IF jan1Issue # << >> THEN jan1Issue
        ELSE clusterIssue

analyze_date_clustering(t, date_column) ==
    LET parsed == [i \in 1..t.n |-> ToDatetime(Col(t, date_column)[i])]
        dates == SelectSeq(parsed, LAMBDA v : ~IsNA(v))
        isJan1(v) == ~IsNA(v) /\ v.m = 1 /\ v.d = 1
        jan_1 == Where(t.n, LAMBDA i : isJan1(parsed[i]))
        jan1Issue ==
            IF Len(jan_1) * 100 > Jan1Percent * Len(dates)
            THEN << Issue("Suspicious Date Clustering - January 1st",
                          date_column, "MEDIUM",
                          <<RoundHalfEven(Len(jan_1) * 1000, Len(dates))>>,
                          jan_1, Take(jan_1, ExampleRows), Len(jan_1),
                          RecJan1) >>
            ELSE << >>
        date_counts == ValueCounts(parsed)
        max_count == date_counts[1][2]
        most_common_date == date_counts[1][1]
        same == Where(t.n, LAMBDA i : parsed[i] = most_common_date)
        \* max_count > len(dates) * 0.05 and len(date_counts) > 20
        clusterIssue ==
            IF /\ max_count * DateClusterDivisor > Len(dates)
               /\ Len(date_counts) > DateClusterUnique
            THEN << Issue("Excessive Date Clustering", date_column, "MEDIUM",
                          <<most_common_date, max_count,
                            RoundHalfEven(max_count * 1000, Len(dates))>>,
                          same, Take(same, ExampleRows), max_count,
                          RecDateCluster) >>
            ELSE << >>
    IN  IF ~HasCol(t, date_column) THEN << >>
        ELSE IF Len(dates) = 0 THEN << >>
        ELSE jan1Issue \o clusterIssue

DataPatternsFault(t) == AgePatternsFault(t)

analyze_data_patterns(t) ==
    LET date_columns == ColsWhere(t, IsDateCol)
    IN  (IF HasCol(t, ColAge) THEN analyze_age_patterns(t) ELSE << >>)
        \o Concat([c \in 1..Len(date_columns) |->
                     analyze_date_clustering(t, date_columns[c])])


----------------------------------------------------------------------------
(* Business-logic detectors.  now is the civil date datetime.now() falls   *)
(* on, as a day number; cell dates are midnights, so a comparison with     *)
(* datetime.now() and the .days of a difference depend on that day alone.  *)

RecFuture == "Review and correct future join dates. These are likely data entry errors."
RecEarly == "Verify company founding year or correct impossible join dates."
RecAgeBirth == "Review age calculation logic or data entry processes. Consider using birthdate as single source of truth for age."
RecImpossible == "Critical data error: Join dates cannot be before birth dates. Review and correct these records immediately."
RecYoungJoin == "Review hiring policies and data accuracy. Consider if these are data entry errors or special cases (internships, etc.)."

AgeTolerance == 1
MinWorkingAge == 16

\* x.days / 365.25 as the fraction (4 * days) / 1461
YearNum(days) == 4 * days
YearDen == 1461

validate_join_dates(t, join_column, now, company_founding_year) ==
    LET join_dates == [i \in 1..t.n |-> ToDatetime(Col(t, join_column)[i])]
        company_founding == DayNumber(company_founding_year, 1, 1)
        future_joins == Where(t.n, LAMBDA i :
                            ~IsNA(join_dates[i]) /\ Day(join_dates[i]) > now)
        early_joins == Where(t.n, LAMBDA i :
                            /\ ~IsNA(join_dates[i])
                            /\ Day(join_dates[i]) < company_founding)
    IN  IF ~HasCol(t, join_column) THEN << >>
        ELSE (IF Len(future_joins) > 0
              THEN << Issue("Future Join Dates", join_column, "HIGH",
                            <<Len(future_joins)>>, future_joins,
                            Take(future_joins, ExampleRows),
                            Len(future_joins), RecFuture) >>
              ELSE << >>)
          \o (IF Len(early_joins) > 0
              THEN << Issue("Join Dates Before Company Founding", join_column,
                            "HIGH", <<Len(early_joins), company_founding_year>>,
                            early_joins, Take(early_joins, ExampleRows),
                            Len(early_joins), RecEarly) >>
              ELSE << >>)

\* abs() of an integer
Abs(x) == IF x < 0 THEN -x ELSE x

\* The consistency test with a difference of 1 flagged too
validate_age_birthdate_consistencyAtLeast(t, now) ==
    LET birth_cols == ColsWhere(t, IsBirthCol)
        birth_col == birth_cols[1]
        birth_dates == [i \in 1..t.n |-> ToDatetime(Col(t, birth_col)[i])]
        ages == Col(t, ColAge)
        calculated_age(i) ==
            RoundHalfEven(YearNum(now - Day(birth_dates[i])), YearDen)
        known(i) == ~IsNA(ages[i]) /\ ~IsNA(birth_dates[i])
        inconsistent == Where(t.n, LAMBDA i :
            known(i) /\ Abs(ages[i].v - calculated_age(i)) >= AgeTolerance)
        shown == Take(inconsistent, ExampleRows)
        examples == [e \in 1..Len(shown) |->
            [record_index |-> shown[e],
             stated_age |-> ages[shown[e]].v,
             calculated_age |-> calculated_age(shown[e]),
             birthdate |-> Col(t, birth_col)[shown[e]],
             difference |-> Abs(ages[shown[e]].v - calculated_age(shown[e]))]]
    IN  IF birth_cols = << >> \/ ~HasCol(t, ColAge) THEN << >>
        ELSE IF Len(inconsistent) > 0
        THEN << Issue("Age-Birthdate Inconsistency", NoCol, "MEDIUM",
                      <<Len(inconsistent)>>, inconsistent, examples,
                      Len(inconsistent), RecAgeBirth) >>
        ELSE << >>

validate_age_birthdate_consistency(t, now) ==
    LET birth_cols == ColsWhere(t, IsBirthCol)
        birth_col == birth_cols[1]
        birth_dates == [i \in 1..t.n |-> ToDatetime(Col(t, birth_col)[i])]
        ages == Col(t, ColAge)
        calculated_age(i) ==
            RoundHalfEven(YearNum(now - Day(birth_dates[i])), YearDen)
        known(i) == ~IsNA(ages[i]) /\ ~IsNA(birth_dates[i])
        inconsistent == Where(t.n, LAMBDA i :
            known(i) /\ Abs(ages[i].v - calculated_age(i)) > AgeTolerance)
        shown == Take(inconsistent, ExampleRows)
        examples == [e \in 1..Len(shown) |->
            [record_index |-> shown[e],
             stated_age |-> ages[shown[e]].v,
             calculated_age |-> calculated_age(shown[e]),
             birthdate |-> Col(t, birth_col)[shown[e]],
             difference |-> Abs(ages[shown[e]].v - calculated_age(shown[e]))]]
    IN  IF birth_cols = << >> \/ ~HasCol(t, ColAge) THEN << >>
        ELSE IF Len(inconsistent) > 0
        THEN << Issue("Age-Birthdate Inconsistency", NoCol, "MEDIUM",
                      <<Len(inconsistent)>>, inconsistent, examples,
                      Len(inconsistent), RecAgeBirth) >>
        ELSE << >>

\* The young-join test with <= 16 in place of < 16
validate_temporal_relationshipsInclusive(t) ==
    LET birth_cols == ColsWhere(t, IsBirthCol)
        join_cols == ColsWhere(t, IsJoinCol)
        birth_dates == [i \in 1..t.n |-> ToDatetime(Col(t, birth_cols[1])[i])]
        join_dates == [i \in 1..t.n |-> ToDatetime(Col(t, join_cols[1])[i])]
        both(i) == ~IsNA(birth_dates[i]) /\ ~IsNA(join_dates[i])
        days(i) == Day(join_dates[i]) - Day(birth_dates[i])
        impossible == Where(t.n, LAMBDA i : both(i) /\ days(i) < 0)
        young_joins == Where(t.n, LAMBDA i :
            both(i) /\ YearNum(days(i)) <= MinWorkingAge * YearDen)
        shown == Take(young_joins, ExampleRows)
        examples == [e \in 1..Len(shown) |->
            [record_index |-> shown[e],
             birth_date |-> birth_dates[shown[e]],
             join_date |-> join_dates[shown[e]],
             age_at_join |->
                 RoundHalfEven(10 * YearNum(days(shown[e])), YearDen)]]
    IN  IF birth_cols = << >> \/ join_cols = << >> THEN << >>
        ELSE (IF Len(impossible) > 0
              THEN << Issue("Impossible Date Relationships", NoCol, "HIGH",
                            <<Len(impossible)>>, impossible,
                            Take(impossible, ExampleRows), Len(impossible),
                            RecImpossible) >>
              ELSE << >>)
          \o (IF Len(young_joins) > 0
              THEN << Issue("Unreasonably Young Employees", NoCol, "MEDIUM",
                            <<Len(young_joins)>>, young_joins, examples,
                            Len(young_joins), RecYoungJoin) >>
              ELSE << >>)

\* The ordering rules applied to the last birth-like and join-like columns
validate_temporal_relationshipsLast(t) ==
    LET birth_cols == ColsWhere(t, IsBirthCol)
        join_cols == ColsWhere(t, IsJoinCol)
        birth_dates == [i \in 1..t.n |-> ToDatetime(Col(t, birth_cols[Len(birth_cols)])[i])]
        join_dates == [i \in 1..t.n |-> ToDatetime(Col(t, join_cols[Len(join_cols)])[i])]
        both(i) == ~IsNA(birth_dates[i]) /\ ~IsNA(join_dates[i])
        days(i) == Day(join_dates[i]) - Day(birth_dates[i])
        impossible == Where(t.n, LAMBDA i : both(i) /\ days(i) < 0)
        young_joins == Where(t.n, LAMBDA i :
            both(i) /\ YearNum(days(i)) < MinWorkingAge * YearDen)
        shown == Take(young_joins, ExampleRows)
        examples == [e \in 1..Len(shown) |->
            [record_index |-> shown[e],
             birth_date |-> birth_dates[shown[e]],
             join_date |-> join_dates[shown[e]],
             age_at_join |->
                 RoundHalfEven(10 * YearNum(days(shown[e])), YearDen)]]
    IN  IF birth_cols = << >> \/ join_cols = << >> THEN << >>
        ELSE (IF Len(impossible) > 0
              THEN << Issue("Impossible Date Relationships", NoCol, "HIGH",
                            <<Len(impossible)>>, impossible,
                            Take(impossible, ExampleRows), Len(impossible),
                            RecImpossible) >>
              ELSE << >>)
          \o (IF Len(young_joins) > 0
              THEN << Issue("Unreasonably Young Employees", NoCol, "MEDIUM",
                            <<Len(young_joins)>>, young_joins, examples,
                            Len(young_joins), RecYoungJoin) >>
              ELSE << >>)

\* Only the joins on or after the birth counted as young
validate_temporal_relationshipsFromBirth(t) ==
    LET birth_cols == ColsWhere(t, IsBirthCol)
        join_cols == ColsWhere(t, IsJoinCol)
        birth_dates == [i \in 1..t.n |-> ToDatetime(Col(t, birth_cols[1])[i])]
        join_dates == [i \in 1..t.n |-> ToDatetime(Col(t, join_cols[1])[i])]
        both(i) == ~IsNA(birth_dates[i]) /\ ~IsNA(join_dates[i])
        days(i) == Day(join_dates[i]) - Day(birth_dates[i])
        impossible == Where(t.n, LAMBDA i : both(i) /\ days(i) < 0)
        young_joins == Where(t.n, LAMBDA i :
            both(i) /\ days(i) >= 0
                    /\ YearNum(days(i)) < MinWorkingAge * YearDen)
        shown == Take(young_joins, ExampleRows)
        examples == [e \in 1..Len(shown) |->
            [record_index |-> shown[e],
             birth_date |-> birth_dates[shown[e]],
             join_date |-> join_dates[shown[e]],
             age_at_join |->
                 RoundHalfEven(10 * YearNum(days(shown[e])), YearDen)]]
    IN  IF birth_cols = << >> \/ join_cols = << >> THEN << >>
        ELSE (IF Len(impossible) > 0
              THEN << Issue("Impossible Date Relationships", NoCol, "HIGH",
                            <<Len(impossible)>>, impossible,
                            Take(impossible, ExampleRows), Len(impossible),
                            RecImpossible) >>
              ELSE << >>)
          \o (IF Len(young_joins) > 0
              THEN << Issue("Unreasonably Young Employees", NoCol, "MEDIUM",
                            <<Len(young_joins)>>, young_joins, examples,
                            Len(young_joins), RecYoungJoin) >>
              ELSE << >>)

validate_temporal_relationships(t) ==
    LET birth_cols == ColsWhere(t, IsBirthCol)
        join_cols == ColsWhere(t, IsJoinCol)
        birth_dates == [i \in 1..t.n |-> ToDatetime(Col(t, birth_cols[1])[i])]
        join_dates == [i \in 1..t.n |-> ToDatetime(Col(t, join_cols[1])[i])]
        both(i) == ~IsNA(birth_dates[i]) /\ ~IsNA(join_dates[i])
        days(i) == Day(join_dates[i]) - Day(birth_dates[i])
        impossible == Where(t.n, LAMBDA i : both(i) /\ days(i) < 0)
        young_joins == Where(t.n, LAMBDA i :
            both(i) /\ YearNum(days(i)) < MinWorkingAge * YearDen)
        shown == Take(young_joins, ExampleRows)
        examples == [e \in 1..Len(shown) |->
            [record_index |-> shown[e],
             birth_date |-> birth_dates[shown[e]],
             join_date |-> join_dates[shown[e]],
             age_at_join |->
                 RoundHalfEven(10 * YearNum(days(shown[e])), YearDen)]]
    IN  IF birth_cols = << >> \/ join_cols = << >> THEN << >>
        ELSE (IF Len(impossible) > 0
              THEN << Issue("Impossible Date Relationships", NoCol, "HIGH",
                            <<Len(impossible)>>, impossible,
                            Take(impossible, ExampleRows), Len(impossible),
                            RecImpossible) >>
              ELSE << >>)
          \o (IF Len(young_joins) > 0
              THEN << Issue("Unreasonably Young Employees", NoCol, "MEDIUM",
                            <<Len(young_joins)>>, young_joins, examples,
                            Len(young_joins), RecYoungJoin) >>
              ELSE << >>)

\* current_date - birth_dates (line 417) overflows
AgeBirthdateFault(t, now) ==
    /\ HasCol(t, ColAge)
    /\ ColsWhere(t, IsBirthCol) # << >>
    /\ \E i \in 1..t.n :
           LET birth == ToDatetime(Col(t, ColsWhere(t, IsBirthCol)[1])[i])
           IN  ~IsNA(birth) /\ TimedeltaOverflows(now - Day(birth))

\* join_dates - birth_dates (line 478) overflows
TemporalRelationshipsFault(t) ==
    /\ ColsWhere(t, IsBirthCol) # << >>
    /\ ColsWhere(t, IsJoinCol) # << >>
    /\ \E i \in 1..t.n :
           LET birth == ToDatetime(Col(t, ColsWhere(t, IsBirthCol)[1])[i])
               join == ToDatetime(Col(t, ColsWhere(t, IsJoinCol)[1])[i])
           IN  /\ ~IsNA(birth)
               /\ ~IsNA(join)
               /\ TimedeltaOverflows(Day(join) - Day(birth))

BusinessLogicFault(t, now) ==
    AgeBirthdateFault(t, now) \/ TemporalRelationshipsFault(t)

validate_business_logic(t, now, company_founding_year) ==
    LET join_date_columns == ColsWhere(t, IsJoinCol)
    IN  Concat([c \in 1..Len(join_date_columns) |->
                  validate_join_dates(t, join_date_columns[c], now,
                                      company_founding_year)])
        \o (IF HasCol(t, ColAge) /\ ColsWhere(t, IsBirthCol) # << >>
            THEN validate_age_birthdate_consistency(t, now)
            ELSE << >>)
        \o validate_temporal_relationships(t)

----------------------------------------------------------------------------
(* Contextual-integrity detectors *)

RecBulk == "Review data import processes. Bulk imports may indicate data migration or system changes that should be documented."
RecTooYoung == "Review minimum age policies and data accuracy. Ages under 16 are unusual for employment records."
RecTooOld == "Review retirement policies and data accuracy. Ages over 80 may indicate data entry errors or special employment arrangements."
RecLongJob == "Review join dates for accuracy. Employment over 50 years may indicate data entry errors or legacy system issues."

MinAge == 16
MaxAge == 80
MaxEmploymentYears == 50
SpikeSigmas == 2
SpikeExamples == 5
SampleRows == 3

\* dt.to_period('M') of a date, as months since year 0
Period(v) == v.y * 12 + (v.m - 1)

\* dates.dt.to_period('M').value_counts().sort_index(): <<period, count>>
\* for every month that occurs, in calendar order
MonthlyCounts(parsed) ==
    LET present == SelectSeq(parsed, LAMBDA v : ~IsNA(v))
        periods == {Period(present[i]) : i \in 1..Len(present)}
        cnt(p) == Cardinality({i \in 1..Len(present) : Period(present[i]) = p})
        nth(r) == CHOOSE p \in periods :
                      Cardinality({q \in periods : q < p}) = r - 1
    IN  [r \in 1..Cardinality(periods) |-> <<nth(r), cnt(nth(r))>>]

\* count > mean + 2 * std, std the sample standard deviation (ddof = 1) of
\* the k monthly counts: with S their sum and Q the sum of their squares,
\*     count - S/k > 2 * sqrt((Q - S*S/k) / (k - 1))
\* A month counted as a spike when it reaches the threshold
IsSpikeAtLeast(count, monthly_counts) ==
    LET k == Len(monthly_counts)
        S == SumSeq([i \in 1..k |-> monthly_counts[i][2]])
        Q == SumSeq([i \in 1..k |-> monthly_counts[i][2] * monthly_counts[i][2]])
        d == k * count - S
    IN  /\ d >= 0
        /\ d * d * (k - 1) >= SpikeSigmas * SpikeSigmas * k * (k * Q - S * S)

\* A month counted as a spike one standard deviation above the mean
IsSpikeOneSigma(count, monthly_counts) ==
    LET k == Len(monthly_counts)
        S == SumSeq([i \in 1..k |-> monthly_counts[i][2]])
        Q == SumSeq([i \in 1..k |-> monthly_counts[i][2] * monthly_counts[i][2]])
        d == k * count - S
    IN  /\ d > 0
        /\ d * d * (k - 1) > k * (k * Q - S * S)

IsSpike(count, monthly_counts) ==
    LET k == Len(monthly_counts)
        S == SumSeq([i \in 1..k |-> monthly_counts[i][2]])
        Q == SumSeq([i \in 1..k |-> monthly_counts[i][2] * monthly_counts[i][2]])
        d == k * count - S
    IN  /\ d > 0
        /\ d * d * (k - 1) > SpikeSigmas * SpikeSigmas * k * (k * Q - S * S)

detect_bulk_import_patterns(t, date_column) ==
    LET parsed == [i \in 1..t.n |-> ToDatetime(Col(t, date_column)[i])]
        dates == SelectSeq(parsed, LAMBDA v : ~IsNA(v))
        monthly_counts == MonthlyCounts(parsed)
        spike_months == SelectSeq(monthly_counts,
                                  LAMBDA e : IsSpike(e[2], monthly_counts))
        month_data(p) == Where(t.n, LAMBDA i :
                             ~IsNA(parsed[i]) /\ Period(parsed[i]) = p)
        shown == Take(spike_months, SpikeExamples)
        examples == [e \in 1..Len(shown) |->
            [period |-> shown[e][1], count |-> shown[e][2],
             percentage_of_total |->
                 RoundHalfEven(shown[e][2] * 1000, Len(dates)),
             sample_records |-> Take(month_data(shown[e][1]), SampleRows)]]
        affected == Concat([m \in 1..Len(spike_months) |->
                              month_data(spike_months[m][1])])
    IN  IF ~HasCol(t, date_column) THEN << >>
        ELSE IF Len(dates) = 0 THEN << >>
        ELSE IF Len(monthly_counts) > 1 /\ Len(spike_months) > 0
        THEN << Issue("Bulk Import Pattern Detection", date_column, "LOW",
                      <<Len(spike_months)>>, affected, examples,
                      SumSeq([m \in 1..Len(spike_months) |-> spike_months[m][2]]),
                      RecBulk) >>
        ELSE << >>

\* The two limits themselves taken as out of range
validate_age_rangesInclusive(t) ==
    LET age == Col(t, ColAge)
        too_young == Where(t.n, LAMBDA i : ~IsNA(age[i]) /\ age[i].v <= MinAge)
        too_old == Where(t.n, LAMBDA i : ~IsNA(age[i]) /\ age[i].v >= MaxAge)
    IN  IF ~HasCol(t, ColAge) THEN << >>
        ELSE (IF Len(too_young) > 0
              THEN << Issue("Unreasonably Young Ages", NoCol, "HIGH",
                            <<Len(too_young)>>, too_young,
                            Take(too_young, ExampleRows), Len(too_young),
                            RecTooYoung) >>
              ELSE << >>)
          \o (IF Len(too_old) > 0
              THEN << Issue("Unreasonably Old Ages", NoCol, "MEDIUM",
                            <<Len(too_old)>>, too_old,
                            Take(too_old, ExampleRows), Len(too_old),
                            RecTooOld) >>
              ELSE << >>)

validate_age_ranges(t) ==
    LET age == Col(t, ColAge)
        too_young == Where(t.n, LAMBDA i : ~IsNA(age[i]) /\ age[i].v < MinAge)
        too_old == Where(t.n, LAMBDA i : ~IsNA(age[i]) /\ age[i].v > MaxAge)
    IN  IF ~HasCol(t, ColAge) THEN << >>
        ELSE (IF Len(too_young) > 0
              THEN << Issue("Unreasonably Young Ages", NoCol, "HIGH",
                            <<Len(too_young)>>, too_young,
                            Take(too_young, ExampleRows), Len(too_young),
                            RecTooYoung) >>
              ELSE << >>)
          \o (IF Len(too_old) > 0
              THEN << Issue("Unreasonably Old Ages", NoCol, "MEDIUM",
                            <<Len(too_old)>>, too_old,
                            Take(too_old, ExampleRows), Len(too_old),
                            RecTooOld) >>
              ELSE << >>)

\* The duration taken from the last join-like column
analyze_employment_durationLast(t, now) ==
    LET join_cols == ColsWhere(t, IsJoinCol)
        join_dates == [i \in 1..t.n |-> ToDatetime(Col(t, join_cols[Len(join_cols)])[i])]
        days(i) == now - Day(join_dates[i])
        very_long == Where(t.n, LAMBDA i :
            /\ ~IsNA(join_dates[i])
            /\ YearNum(days(i)) > MaxEmploymentYears * YearDen)
        shown == Take(very_long, ExampleRows)
        examples == [e \in 1..Len(shown) |->
            [record_index |-> shown[e],
             join_date |-> join_dates[shown[e]],
             duration_years |->
                 RoundHalfEven(10 * YearNum(days(shown[e])), YearDen)]]
    IN  IF join_cols = << >> THEN << >>
        ELSE IF \E i \in 1..t.n :
                   ~IsNA(join_dates[i]) /\ TimedeltaOverflows(days(i))
        THEN << >>
        ELSE IF Len(very_long) > 0
        THEN << Issue("Unusually Long Employment Duration", NoCol, "MEDIUM",
                      <<Len(very_long)>>, very_long, examples,
                      Len(very_long), RecLongJob) >>
        ELSE << >>

analyze_employment_duration(t, now) ==
    LET join_cols == ColsWhere(t, IsJoinCol)
        join_dates == [i \in 1..t.n |-> ToDatetime(Col(t, join_cols[1])[i])]
        days(i) == now - Day(join_dates[i])
        very_long == Where(t.n, LAMBDA i :
            /\ ~IsNA(join_dates[i])
            /\ YearNum(days(i)) > MaxEmploymentYears * YearDen)
        shown == Take(very_long, ExampleRows)
        examples == [e \in 1..Len(shown) |->
            [record_index |-> shown[e],
             join_date |-> join_dates[shown[e]],
             duration_years |->
                 RoundHalfEven(10 * YearNum(days(shown[e])), YearDen)]]
    IN  IF join_cols = << >> THEN << >>
        ELSE IF \E i \in 1..t.n :
                   ~IsNA(join_dates[i]) /\ TimedeltaOverflows(days(i))
        THEN << >>
        ELSE IF Len(very_long) > 0
        THEN << Issue("Unusually Long Employment Duration", NoCol, "MEDIUM",
                      <<Len(very_long)>>, very_long, examples,
                      Len(very_long), RecLongJob) >>
        ELSE << >>

\* The issues the business rules have appended when one of them raises: those
\* of the join dates; then, if the age rule passed, those of the age rule and
\* the issue of the joins before birth, which is appended before line 478
business_logic_until_fault(t, now, company_founding_year) ==
    LET join_date_columns == ColsWhere(t, IsJoinCol)
    IN  Concat([c \in 1..Len(join_date_columns) |->
                  validate_join_dates(t, join_date_columns[c], now,
                                      company_founding_year)])
        \o (IF AgeBirthdateFault(t, now) THEN << >>
            ELSE (IF HasCol(t, ColAge) /\ ColsWhere(t, IsBirthCol) # << >>
                  THEN validate_age_birthdate_consistency(t, now)
                  ELSE << >>)
                 \o SelectSeq(validate_temporal_relationships(t),
                       LAMBDA x : x.category[1] = "Impossible Date Relationships"))

check_contextual_integrity(t, now) ==
    LET join_cols == ColsWhere(t, IsJoinCol)
    IN  Concat([c \in 1..Len(join_cols) |->
                  detect_bulk_import_patterns(t, join_cols[c])])
        \o (IF HasCol(t, ColAge) THEN validate_age_ranges(t) ELSE << >>)
        \o analyze_employment_duration(t, now)


----------------------------------------------------------------------------
(* Aggregator and report builder *)

BySeverity(iss, sev) == SelectSeq(iss, LAMBDA i : i.severity = sev)

\* TotalAffected as the sum of the issues' list lengths, without the union
TotalAffectedSummed(iss) ==
    SumSeq([i \in 1..Len(iss) |-> Len(iss[i].affected_records)])

\* len(set().union(*[issue.affected_records for issue in self.issues]))
TotalAffected(iss) ==
    Cardinality(UNION {Range(iss[i].affected_records) : i \in 1..Len(iss)})

\* QualityScore with the score of an empty table taken to be 0
QualityScoreEmptyZero(total_records, total_affected) ==
    IF total_records > 0
    THEN RoundHalfEven(Max(0, 1000 * total_records - 1000 * total_affected),
                       total_records)
    ELSE 0

\* QualityScore as the affected share itself, not its complement
QualityScoreOfAffected(total_records, total_affected) ==
    IF total_records > 0
    THEN RoundHalfEven(Max(0, 1000 * total_affected), total_records)
    ELSE 1000

\* round(quality_score, 1), in tenths of a point
QualityScore(total_records, total_affected) ==
    IF total_records > 0
    THEN RoundHalfEven(Max(0, 1000 * total_records - 1000 * total_affected),
                       total_records)
    ELSE 1000

\* round(issue.count / total_records * 100, 2), in hundredths of a percent
AffectedPercentage(count, total_records) ==
    RoundHalfEven(count * 10000, total_records)

Summary(t, iss, now) ==
    [total_records |-> t.n,
     total_issues_found |-> Len(iss),
     high_severity_issues |-> Len(BySeverity(iss, "HIGH")),
     medium_severity_issues |-> Len(BySeverity(iss, "MEDIUM")),
     low_severity_issues |-> Len(BySeverity(iss, "LOW")),
     total_affected_records |-> TotalAffected(iss),
     data_quality_score |-> QualityScore(t.n, TotalAffected(iss)),
     validation_timestamp |-> now]

DetailedIssues(t, iss) ==
    [i \in 1..Len(iss) |->
        [category |-> iss[i].category,
         severity |-> iss[i].severity,
         description |-> iss[i].description,
         count |-> iss[i].count,
         affected_percentage |-> AffectedPercentage(iss[i].count, t.n),
         examples |-> iss[i].examples,
         recommendation |-> iss[i].recommendation]]

RecommendationBlock(iss, sev, title) ==
    IF BySeverity(iss, sev) # << >>
    THEN << [priority |-> sev, title |-> title,
             items |-> [i \in 1..Len(BySeverity(iss, sev)) |->
                           BySeverity(iss, sev)[i].recommendation]] >>
    ELSE << >>

\* Recommendations with the blocks built in the order of self.issues'
\* first severities: MEDIUM before HIGH
RecommendationsMediumFirst(iss) ==
    RecommendationBlock(iss, "MEDIUM", "Data Quality Improvements")
    \o RecommendationBlock(iss, "HIGH",
        "Critical Data Issues Requiring Immediate Attention")
    \o RecommendationBlock(iss, "LOW", "Process Improvements and Monitoring")

Recommendations(iss) ==
    RecommendationBlock(iss, "HIGH",
        "Critical Data Issues Requiring Immediate Attention")
    \o RecommendationBlock(iss, "MEDIUM", "Data Quality Improvements")
    \o RecommendationBlock(iss, "LOW", "Process Improvements and Monitoring")

\* ValidationPassed as "no issue at all"
ValidationPassedNoIssue(iss) == Len(iss) = 0

ValidationPassed(iss) == Len(BySeverity(iss, "HIGH")) = 0

generate_validation_report(t, iss, now) ==
    [summary |-> Summary(t, iss, now),
     detailed_issues |-> DetailedIssues(t, iss),
     recommendations |-> Recommendations(iss),
     validation_passed |-> ValidationPassed(iss),
     issues_by_severity |->
        [high |-> BySeverity(iss, "HIGH"),
         medium |-> BySeverity(iss, "MEDIUM"),
         low |-> BySeverity(iss, "LOW")]]


----------------------------------------------------------------------------
(* The tables considered *)

MaxRows == 2
MaxMonths == 6
MaxExtra == 2
MaxAges == 11
MaxDates == 21
MaxClock == 2
ClockStepDays == 200

Tbl(cols, n, data) == [cols |-> cols, n |-> n, data |-> data]

NoTable == Tbl(<< >>, 0, << >>)

ColPhone == <<"p","h","o","n","e">>
ColWorkPhone == <<"W","o","r","k","_","P","h","o","n","e">>
ColDob == <<"d","o","b">>
ColBirthdate == <<"b","i","r","t","h","d","a","t","e">>
ColJoinDate == <<"j","o","i","n","_","d","a","t","e">>
ColHireDate == <<"H","i","r","e","D","a","t","e">>
ColStart == <<"s","t","a","r","t","e","d">>
ColName == <<"n","a","m","e">>
ColUpdated == <<"u","p","d","a","t","e","d">>

EmailA  == Str(<<"A","@","x",".","c">>)
EmailA2 == Str(<<" ","a","@","x",".","c"," ">>)
EmailB  == Str(<<"b","@","x",".","c">>)
Phone555  == Str(<<"5","5","5","-","1","2","3","-","4","5","6","7">>)
Phone555b == Str(<<"5","5","5","1","2","3","4","5","6","7">>)
Phone202  == Str(<<"(","2","0","2",")"," ","5","5","5","-","0","1","2","3">>)
Phone202b == Str(<<"+","1","2","0","2","5","5","5","0","1","2","3">>)
PhoneNone == Str(<<"n","/","a">>)
Junk == Str(<<"?">>)

\* datetime.now() at clock value c, as a day number
Now(c) == DayNumber(2025, 6, 30) + (c - 1) * ClockStepDays

FoundingYears == {1990, 2000}

\* Every table with the given columns, n rows and cells from doms[c]
TablesOver(cols, doms, n) ==
    LET k == Len(cols)
        RECURSIVE Build(_)
        Build(c) == IF c > k THEN {<< >>}
                    ELSE {<<col>> \o rest : col \in [1..n -> doms[c]],
                                            rest \in Build(c + 1)}
    IN  {Tbl(cols, n, d) : d \in Build(1)}

\* The table with the given columns whose records are the given rows
TableOfRows(cols, rows) ==
    Tbl(cols, Len(rows),
        [c \in 1..Len(cols) |-> [i \in 1..Len(rows) |-> rows[i][c]]])

ContactTables ==
    UNION {TablesOver(<<ColEmail, ColPhone>>,
                      <<{EmailA, EmailA2, NA}, {Phone555, Phone555b, NA}>>, n)
           : n \in 0..MaxRows}

TwoPhoneTables ==
    UNION {TablesOver(<<ColEmail, ColPhone, ColWorkPhone>>,
                      <<{EmailA}, {Phone555, PhoneNone},
                        {Phone202, Phone202b}>>, n)
           : n \in 0..MaxRows}

AgeTables ==
    UNION {TablesOver(<<ColEmail, ColAge>>,
                      <<{EmailA},
                        {NA, Num(10), Num(20), Num(23), Num(85), Junk}>>, n)
           : n \in 0..MaxRows}

BirthJoinTables ==
    UNION {TablesOver(<<ColDob, ColJoinDate>>,
                      <<{NA, Date(2010, 6, 15)},
                        {NA, Date(2005, 3, 1), Date(2025, 12, 31),
                         Date(1975, 9, 1)}>>, n)
           : n \in 0..MaxRows}

AgeBirthTables ==
    UNION {TablesOver(<<ColAge, ColBirthdate, ColName>>,
                      <<{NA, Num(24), Num(30)},
                        {NA, Date(2000, 1, 1), Junk}, {Junk}>>, n)
           : n \in 0..MaxRows}

TwoJoinTables ==
    UNION {TablesOver(<<ColHireDate, ColStart>>,
                      <<{Junk, Date(2025, 12, 31), Date(1985, 1, 1)},
                        {NA, Date(1995, 2, 1)}>>, n)
           : n \in 0..MaxRows}

PlainTables ==
    {NoTable}
    \cup UNION {TablesOver(<<ColName, ColUpdated>>,
                           <<{Junk, NA}, {Date(2020, 1, 1), NA, Junk}>>, n)
                : n \in 0..MaxRows}

\* k months of year y with a join on the first day of each, and extra more
\* joins on the first day of the year
BulkTable(y, k, extra) ==
    Tbl(<<ColJoinDate>>, k + extra,
        << [i \in 1..(k + extra) |->
              IF i <= k THEN Date(y, i, 1) ELSE Date(y, 1, 1)] >>)

BulkTables ==
    {BulkTable(y, k, e) : y \in {1975, 2020}, k \in 1..MaxMonths,
                          e \in 0..MaxExtra}

\* k distinct ages, and extra more records of the first age
AgeClusterTable(k, extra) ==
    Tbl(<<ColAge>>, k + extra,
        << [i \in 1..(k + extra) |-> IF i <= k THEN Num(20 + i) ELSE Num(21)] >>)

AgeClusterTables ==
    {AgeClusterTable(k, e) : k \in (MaxAges - 1)..MaxAges, e \in 0..MaxExtra}

\* k distinct dates, and extra more records of the first date
DateClusterTable(k, extra) ==
    Tbl(<<ColUpdated>>, k + extra,
        << [i \in 1..(k + extra) |->
              IF i <= k THEN Date(2020, 3, i) ELSE Date(2020, 3, 1)] >>)

DateClusterTables ==
    {DateClusterTable(k, e) : k \in (MaxDates - 1)..MaxDates, e \in 0..MaxExtra}

ColCity == <<"c","i","t","y">>
EmailB2 == Str(<<"B","@","x",".","c"," ">>)
Phone415 == Str(<<"4","1","5","-","5","5","5","-","0","1","9","9">>)

\* The email of the i-th record that shares its email with no other one
OwnEmail(i) ==
    Str(<<"u">> \o Dec2(i) \o <<"@","x",".","c">>)

\* n records of which the first k hold one email, written in two ways, and
\* the others an email of their own
SharedEmailTable(n, k) ==
    Tbl(<<ColEmail>>, n,
        << [i \in 1..n |-> IF i > k THEN OwnEmail(i)
                           ELSE IF i % 2 = 1 THEN EmailA ELSE EmailA2] >>)

\* Tables of ten records, and tables with two groups of equal emails next
\* to an absent one
EmailGroupTables ==
    {SharedEmailTable(10, k) : k \in {1, 4}}
    \cup {TableOfRows(<<ColEmail>>, << <<EmailB>>, <<EmailA>>, <<NA>>, <<EmailA2>>, <<x>> >>)
          : x \in {EmailB2, NA}}

\* Two phone columns whose values also meet across the columns
CrossPhoneTables ==
    TablesOver(<<ColPhone, ColWorkPhone>>,
               <<{Phone555, Phone415}, {Phone555b, Phone415, PhoneNone}>>, 2)

\* No column that a detector looks for
OtherTables ==
    UNION {TablesOver(<<ColName, ColCity>>,
                      <<{Junk, NA}, {EmailA, Phone555, Date(2999, 1, 1)}>>, n)
           : n \in 1..2}

\* Join dates far in the future
FarJoinTables ==
    UNION {TablesOver(<<ColStart>>,
                      <<{Date(2999, 1, 1), Date(2025, 7, 1), Date(2025, 6, 30)}>>, n)
           : n \in 1..2}

\* Births and joins sixteen years apart, a day more or less, and a join
\* before the birth
BirthJoinRows ==
    {<<Date(2000, 1, 1), Date(2010, 1, 1)>>, <<Date(2010, 1, 1), Date(2005, 1, 1)>>,
     <<Date(2000, 1, 1), Date(2016, 1, 1)>>, <<Date(2000, 1, 1), Date(2015, 12, 31)>>,
     <<Junk, Date(2005, 1, 1)>>}

SixteenTables ==
    {TableOfRows(<<ColBirthdate, ColHireDate>>, rows)
     : rows \in [1..2 -> BirthJoinRows]}

ColAgeCapital == <<"A","g","e">>

\* A column of numbers
NumTable(col, values) ==
    Tbl(<<col>>, Len(values), << [i \in 1..Len(values) |-> Num(values[i])] >>)

\* Ages of which all, two in five, and eleven in eleven are multiples of 5;
\* and a column that is not named age
RoundedAgeTables ==
    {NumTable(ColAge, <<20, 25, 30, 35, 20, 25, 30, 35, 20, 25>>),
     NumTable(ColAge, <<20, 21, 22, 23, 25>>),
     NumTable(ColAge, <<20, 21, 25, 23, 30>>),
     NumTable(ColAge, <<20, 25, 30, 35, 40, 45, 50, 55, 60, 65, 70>>),
     NumTable(ColAgeCapital, <<20, 25, 30>>)}

\* The i-th of a run of distinct dates that starts on 2020-01-01
RunDate(i) == Date(2020, 1 + ((i - 1) \div 28), 1 + ((i - 1) % 28))

\* k distinct dates in a date-like column, and extra more records dated
\* January 1st
DatesTable(k, extra) ==
    Tbl(<<ColDob>>, k + extra,
        << [i \in 1..(k + extra) |-> IF i <= k THEN RunDate(i) ELSE RunDate(1)] >>)

\* One record in four, and one in five, on January 1st, with 20 and with 21
\* distinct dates; and a most frequent date that is 2 in 40
JanuaryTables ==
    {DatesTable(21, 5), DatesTable(21, 4), DatesTable(20, 5), DatesTable(39, 1)}

ColHired == <<"h","i","r","e","d">>

\* One record with two birth-like and two join-like columns; only the first
\* of each kind, dob and join_date, should count
ColumnTables ==
    TablesOver(<<ColDob, ColBirthdate, ColJoinDate, ColHired>>,
               <<{Date(2000, 1, 1), Date(2010, 1, 1)},
                 {NA, Date(1990, 1, 1), Date(2012, 1, 1)},
                 {Date(2005, 1, 1), Date(2020, 1, 1)},
                 {NA, Date(1980, 1, 1)}>>, 1)

\* A first join-like column with joins 18262 and 18263 days before
\* 2025-06-30 and a join in 1700, and a second one with a join in 1970
LongJobTables ==
    UNION {TablesOver(<<ColStart, ColJoinDate>>,
                      <<{Date(1975, 7, 1), Date(1975, 6, 30), Junk,
                         Date(1700, 1, 1)},
                        {Date(1970, 1, 1), NA}>>, n)
           : n \in 1..2}

\* The fifteenth of the m-th month from January 2020
MonthDate(m) == Date(2020 + ((m - 1) \div 12), 1 + ((m - 1) % 12), 15)

\* A column with counts[m] dates in the m-th month, the last month first
MonthsColumn(counts) ==
    LET K == Len(counts)
        after(m) == SumSeq(SubSeq(counts, m + 1, K))
        month(i) == CHOOSE m \in 1..K :
                        after(m) < i /\ i <= after(m) + counts[m]
    IN  [i \in 1..SumSeq(counts) |-> MonthDate(month(i))]

\* K months of one date each, but c dates in the months of the set at
Counts(K, at, c) == [m \in 1..K |-> IF m \in at THEN c ELSE 1]

MonthsTable(counts) ==
    Tbl(<<ColJoinDate>>, SumSeq(counts), << MonthsColumn(counts) >>)

\* Two busy months of twelve; six busy months of thirty-six; and two
\* join-like columns, each with its own busy month and with two cells that
\* hold no date
SpikeTables ==
    {MonthsTable(Counts(12, {3, 7}, 3)),
     MonthsTable(Counts(36, {1, 7, 13, 19, 25, 31}, 2)),
     Tbl(<<ColJoinDate, ColStart>>, 9,
         << MonthsColumn(Counts(6, {2}, 2)) \o <<NA, Junk>>,
            <<Junk, NA>> \o MonthsColumn(Counts(6, {5}, 2)) >>)}

\* Two to five months, of one or three dates each
CountTables ==
    {MonthsTable(c) : c \in UNION {[1..k -> {1, 3}] : k \in 2..5}}

\* Ages on both sides of the two limits
AgeRangeTables ==
    UNION {TablesOver(<<ColAge>>,
                      <<{Num(15), Num(16), Num(80), Num(81), NA}>>, n)
           : n \in 1..2}

\* Dates more than 2^63 ns apart: a birth in 1700 beside an age, a birth in
\* 1700 beside a join in 2020, and a birth in 2200 beside a join in 1700
FarApartTables ==
    {TableOfRows(<<ColAge, ColDob>>, << <<Num(30), Date(1700, 1, 1)>> >>),
     TableOfRows(<<ColDob, ColJoinDate>>,
                 << <<Date(1700, 1, 1), Date(2020, 1, 1)>> >>),
     TableOfRows(<<ColDob, ColJoinDate>>,
                 << <<Date(2000, 1, 1), Date(2020, 1, 1)>>,
                    <<Date(2200, 1, 1), Date(1700, 1, 1)>> >>)}

\* What the ui caller may upload
Tables ==
    ContactTables \cup TwoPhoneTables \cup AgeTables \cup BirthJoinTables
    \cup AgeBirthTables \cup TwoJoinTables \cup PlainTables \cup BulkTables \cup AgeClusterTables
    \cup DateClusterTables \cup EmailGroupTables \cup CrossPhoneTables
    \cup OtherTables \cup FarJoinTables \cup SixteenTables
    \cup RoundedAgeTables
    \cup JanuaryTables
    \cup LongJobTables
    \cup SpikeTables \cup CountTables
    \cup AgeRangeTables
    \cup FarApartTables

HarnessRows == {<<Num(20), Date(2025, 12, 31)>>, <<Num(23), NA>>}

\* What the harness validates, again and again: tables of those rows, and
\* two tables on which a detector raises
HarnessTables ==
    UNION {{TableOfRows(<<ColAge, ColJoinDate>>, rows)
            : rows \in [1..n -> HarnessRows]} : n \in 0..2}
    \cup {TableOfRows(<<ColAge, ColJoinDate>>, << <<Junk, NA>> >>),
          TableOfRows(<<ColEmail, ColAge>>,
                      << <<EmailA, Junk>>, <<EmailA, Num(20)>> >>)}

----------------------------------------------------------------------------
(* The state machine *)

None == [kind |-> "none"]

\* What the caller holds after a call: the outcome and what the call was
\* given (the table, the founding year, the clock values it read)
Returned(report) ==
    [kind |-> "report", report |-> report, table |-> dfAtCall,
     founding |-> founding, reads |-> reads]

Raised ==
    [kind |-> "fault", table |-> dfAtCall, founding |-> founding,
     reads |-> reads]

Init ==
    /\ df = NoTable
    /\ dfAtCall = NoTable
    /\ issues = << >>
    /\ founding \in FoundingYears
    /\ pc = "idle"
    /\ clock = 1
    /\ reads = << >>
    /\ result = None
    /\ last = None
    /\ caller \in {"ui", "harness"}

\* AdvancedDataValidator(company_founding_year = y)
Construct ==
    /\ pc = "idle"
    /\ caller = "harness"
    /\ \E y \in FoundingYears : founding' = y
    /\ issues' = << >>
    /\ UNCHANGED <<df, dfAtCall, pc, clock, reads, result, last, caller>>

\* Enter without "self.issues = []": the issues of the call before stay
EnterKeepingIssues(t) ==
    /\ df' = t
    /\ dfAtCall' = t
    /\ issues' = issues
    /\ pc' = "duplicates"
    /\ reads' = << >>
    /\ last' = result
    /\ result' = None

\* Enter that clears the issues only after a call that returned
EnterClearingAfterReturn(t) ==
    /\ df' = t
    /\ dfAtCall' = t
    /\ issues' = IF result.kind = "fault" THEN issues ELSE << >>
    /\ pc' = "duplicates"
    /\ reads' = << >>
    /\ last' = result
    /\ result' = None

\* validate_dataset(t), up to the first detector: self.issues = []
Enter(t) ==
    /\ df' = t
    /\ dfAtCall' = t
    /\ issues' = << >>
    /\ pc' = "duplicates"
    /\ reads' = << >>
    /\ last' = result
    /\ result' = None

\* The harness calls validate_dataset on the validator it holds
Call ==
    /\ pc = "idle"
    /\ caller = "harness"
    /\ \E t \in HarnessTables : Enter(t)
    /\ UNCHANGED <<founding, clock, caller>>

\* The button of the ui: a new validator, then validate_dataset, once
UIRun ==
    /\ pc = "idle"
    /\ caller = "ui"
    /\ result = None
    /\ \E y \in FoundingYears : founding' = y
    /\ \E t \in Tables : Enter(t)
    /\ UNCHANGED <<clock, caller>>

\* An exception leaves validate_dataset: nothing is returned
Raise ==
    /\ pc' = "idle"
    /\ result' = Raised
    /\ UNCHANGED <<df, dfAtCall, issues, founding, clock, reads, last, caller>>

\* DetectDuplicateIdentities with the emails normalized in place:
\* df['email'] = df['email'].str.lower().str.strip()
DetectDuplicateIdentitiesInPlace ==
    /\ pc = "duplicates"
    /\ IF DuplicateIdentitiesFault(df)
       THEN Raise
       ELSE /\ issues' = issues \o detect_duplicate_identities(df)
            /\ pc' = "patterns"
            /\ df' = IF HasCol(df, ColEmail)
                     THEN [df EXCEPT !.data =
                             [c \in 1..Len(df.cols) |->
                                IF df.cols[c] = ColEmail
                                THEN [i \in 1..df.n |->
                                        NormalizeEmail(df.data[c][i])]
                                ELSE df.data[c]]]
                     ELSE df
            /\ UNCHANGED <<dfAtCall, founding, clock, reads, result,
                           last, caller>>

DetectDuplicateIdentities ==
    /\ pc = "duplicates"
    /\ IF DuplicateIdentitiesFault(df)
       THEN Raise
       ELSE /\ issues' = issues \o detect_duplicate_identities(df)
            /\ pc' = "patterns"
            /\ UNCHANGED <<df, dfAtCall, founding, clock, reads, result,
                           last, caller>>

AnalyzeDataPatterns ==
    /\ pc = "patterns"
    /\ IF DataPatternsFault(df)
       THEN Raise
       ELSE /\ issues' = issues \o analyze_data_patterns(df)
            /\ pc' = "business"
            /\ UNCHANGED <<df, dfAtCall, founding, clock, reads, result,
                           last, caller>>

ValidateBusinessLogic ==
    /\ pc = "business"
    /\ reads' = Append(reads, clock)
    /\ IF BusinessLogicFault(df, Now(clock))
       THEN /\ issues' = issues \o business_logic_until_fault(df, Now(clock),
                                                              founding)
            /\ pc' = "idle"
            /\ result' = [Raised EXCEPT !.reads = Append(reads, clock)]
            /\ UNCHANGED <<df, dfAtCall, founding, clock, last, caller>>
       ELSE /\ issues' = issues \o validate_business_logic(df, Now(clock),
                                                           founding)
            /\ pc' = "context"
            /\ UNCHANGED <<df, dfAtCall, founding, clock, result, last,
                           caller>>

CheckContextualIntegrity ==
    /\ pc = "context"
    /\ issues' = issues \o check_contextual_integrity(df, Now(clock))
    /\ reads' = Append(reads, clock)
    /\ pc' = "report"
    /\ UNCHANGED <<df, dfAtCall, founding, clock, result, last, caller>>

\* issue.count / total_records (line 680) divides by zero when an issue is
\* listed for a table of no records: ZeroDivisionError leaves the call
ReportFault(t, iss) == t.n = 0 /\ iss # << >>

GenerateReport ==
    /\ pc = "report"
    /\ IF ReportFault(df, issues)
       THEN Raise
       ELSE /\ result' = Returned(generate_validation_report(df, issues,
                                                             Now(clock)))
            /\ pc' = "idle"
            /\ UNCHANGED <<df, dfAtCall, issues, founding, clock, reads, last,
                           caller>>

\* Time passes
Tick ==
    /\ clock < MaxClock
    /\ clock' = clock + 1
    /\ UNCHANGED <<df, dfAtCall, issues, founding, pc, reads, result, last,
                   caller>>

Next ==
    \/ Construct
    \/ Call
    \/ UIRun
    \/ DetectDuplicateIdentities
    \/ AnalyzeDataPatterns
    \/ ValidateBusinessLogic
    \/ CheckContextualIntegrity
    \/ GenerateReport
    \/ Tick

Spec == Init /\ [][Next]_vars


\* A caller that validates, on one validator, tables that differ in their
\* second birth-like and join-like columns
CallColumns ==
    /\ pc = "idle"
    /\ caller = "columns"
    /\ \E t \in ColumnTables : Enter(t)
    /\ UNCHANGED <<founding, clock, caller>>

InitColumns ==
    /\ df = NoTable
    /\ dfAtCall = NoTable
    /\ issues = << >>
    /\ founding \in FoundingYears
    /\ pc = "idle"
    /\ clock = 1
    /\ reads = << >>
    /\ result = None
    /\ last = None
    /\ caller = "columns"

\* The calls of that caller, all on one day
NextColumns ==
    \/ CallColumns
    \/ DetectDuplicateIdentities
    \/ AnalyzeDataPatterns
    \/ ValidateBusinessLogic
    \/ CheckContextualIntegrity
    \/ GenerateReport

SpecColumns == InitColumns /\ [][NextColumns]_vars

----------------------------------------------------------------------------
(* Properties of the report *)

IsReport(r) == r.kind = "report"

\* Every issue of a report, HIGH first
ReportIssues(rep) ==
    rep.issues_by_severity.high \o rep.issues_by_severity.medium
    \o rep.issues_by_severity.low

\* The distinct records affected by some issue of a report
AffectedSet(rep) ==
    UNION {Range(ReportIssues(rep)[i].affected_records)
           : i \in 1..Len(ReportIssues(rep))}

\* A report without its timestamp
Untimed(rep) == [rep EXCEPT !.summary.validation_timestamp = 0]

SeverityRank(sev) == CASE sev = "HIGH" -> 1 [] sev = "MEDIUM" -> 2 [] sev = "LOW" -> 3

\* C1: a call on a table with zero rows returns a report with score 100,
\* no issue, an empty detailed_issues list and validation_passed = true.
C1_EmptyTableReport ==
    (result.kind # "none" /\ result.table.n = 0) =>
        /\ IsReport(result)
        /\ result.report.summary.data_quality_score = 1000
        /\ result.report.summary.total_issues_found = 0
        /\ result.report.detailed_issues = << >>
        /\ result.report.validation_passed

C1_Witness ==
    /\ IsReport(result)
    /\ result.table.n = 0
    /\ HasCol(result.table, ColEmail)
    /\ HasCol(result.table, ColPhone)

\* C2: every call of validate_dataset that ends has returned a report; no
\* fault of a detector leaves the call.
C2_AlwaysReturnsReport ==
    (pc = "idle" /\ result.kind # "none") => IsReport(result)

\* C3: validation_passed is true exactly when the report has no HIGH
\* issue, whatever its MEDIUM and LOW issues.
C3_PassedIffNoHigh ==
    IsReport(result) =>
        (result.report.validation_passed <=>
            \A i \in 1..Len(result.report.detailed_issues) :
                result.report.detailed_issues[i].severity # "HIGH")

C3_Witness ==
    /\ IsReport(result)
    /\ result.report.validation_passed
    /\ result.report.summary.medium_severity_issues > 0
    /\ result.report.summary.low_severity_issues > 0

\* C4: with at least one record, the score is max(0, 100 - U/n*100) to the
\* nearest tenth, U the number of distinct records in the union of the
\* issues' affected_records; U <= n and the score lies in 0..100.
C4_ScoreFromUnion ==
    (IsReport(result) /\ result.table.n >= 1) =>
        LET n == result.report.summary.total_records
            U == result.report.summary.total_affected_records
            score == result.report.summary.data_quality_score
        IN  /\ n = result.table.n
            /\ U = Cardinality(AffectedSet(result.report))
            /\ U <= n
            /\ 2 * Abs(score * n - Max(0, 1000 * (n - U))) <= n
            /\ 0 <= score /\ score <= 1000

C4_Witness ==
    /\ IsReport(result)
    /\ result.table.n >= 2
    /\ result.report.summary.total_issues_found >= 2
    /\ result.report.summary.total_affected_records = 1
    /\ result.report.summary.data_quality_score = 500

\* C5: of two runs over tables with the same number of records, the one
\* whose set of affected records is included in the other's has a score
\* at least as high.
C5_ScoreMonotone ==
    (/\ IsReport(last) /\ IsReport(result)
     /\ last.table.n = result.table.n
     /\ AffectedSet(last.report) \subseteq AffectedSet(result.report)) =>
        last.report.summary.data_quality_score
            >= result.report.summary.data_quality_score

C5_Witness ==
    /\ IsReport(last) /\ IsReport(result)
    /\ last.table.n = result.table.n
    /\ AffectedSet(last.report) \subseteq AffectedSet(result.report)
    /\ AffectedSet(last.report) # AffectedSet(result.report)
    /\ AffectedSet(last.report) # {}
    /\ last.report.summary.data_quality_score
           > result.report.summary.data_quality_score

\* C6: every issue of every report has 0 <= affected_percentage <= 100,
\* that is, a count that does not exceed the number of records.
C6_PercentageInRange ==
    IsReport(result) =>
        \A i \in 1..Len(result.report.detailed_issues) :
            /\ 0 <= result.report.detailed_issues[i].affected_percentage
            /\ result.report.detailed_issues[i].affected_percentage <= 10000
            /\ result.report.detailed_issues[i].count <= result.table.n

\* C7: every issue's count is the number of distinct records in its
\* affected_records; the bulk-import issue's count is the sum of the counts
\* of its spike months.
C7_CountIsCardinality ==
    IsReport(result) =>
        \A i \in 1..Len(ReportIssues(result.report)) :
            LET issue == ReportIssues(result.report)[i]
            IN  IF issue.category[1] = "Bulk Import Pattern Detection"
                THEN issue.description[1] <= SpikeExamples =>
                        issue.count = SumSeq([e \in 1..Len(issue.examples) |->
                                                issue.examples[e].count])
                ELSE issue.count = Cardinality(Range(issue.affected_records))

\* C8: recommendations holds at most one block per severity, HIGH before
\* MEDIUM before LOW; a block is there exactly when an issue of its
\* severity is; its items are the recommendations of those issues in the
\* order the issues were emitted.
C8_RecommendationBlocks ==
    IsReport(result) =>
        LET recs == result.report.recommendations
            det == result.report.detailed_issues
            ofSev(sev) == SelectSeq(det, LAMBDA d : d.severity = sev)
        IN  /\ \A i, j \in 1..Len(recs) :
                  i < j => SeverityRank(recs[i].priority)
                               < SeverityRank(recs[j].priority)
            /\ \A sev \in {"HIGH", "MEDIUM", "LOW"} :
                  (\E i \in 1..Len(recs) : recs[i].priority = sev)
                      <=> ofSev(sev) # << >>
            /\ \A i \in 1..Len(recs) :
                  recs[i].items =
                      [k \in 1..Len(ofSev(recs[i].priority)) |->
                          ofSev(recs[i].priority)[k].recommendation]

C8_Witness ==
    /\ IsReport(result)
    /\ Len(result.report.recommendations) = 3
    /\ \E i \in 1..3 : Len(result.report.recommendations[i].items) >= 2

\* C9 as claimed: two runs on the same table with the same founding year
\* return reports that differ in the timestamp at most, whatever time has
\* passed between them.
C9_SameTableSameReport ==
    (/\ IsReport(last) /\ IsReport(result)
     /\ last.table = result.table
     /\ last.founding = result.founding) =>
        Untimed(last.report) = Untimed(result.report)

\* C9 as amended: two runs on the same table with the same founding year
\* whose detectors read the same current date return reports that differ
\* in the timestamp at most, on one validator or on two.
C9_SameTableSameClockSameReport ==
    (/\ IsReport(last) /\ IsReport(result)
     /\ last.table = result.table
     /\ last.founding = result.founding
     /\ last.reads = result.reads) =>
        Untimed(last.report) = Untimed(result.report)

C9_Witness ==
    /\ IsReport(last) /\ IsReport(result)
    /\ last.table = result.table
    /\ last.founding = result.founding
    /\ last.reads = result.reads
    /\ result.table.n = 2
    /\ result.report.summary.total_issues_found >= 2
    /\ Untimed(last.report) = Untimed(result.report)
    /\ last.report.summary.validation_timestamp
           # result.report.summary.validation_timestamp

\* C10: the table the caller passed is never changed, neither while
\* validate_dataset runs nor when it has returned or raised.
C10_TableUnchanged == df = dfAtCall

C10_Witness ==
    /\ IsReport(result)
    /\ HasCol(df, ColEmail)
    /\ \E i \in 1..df.n : NormalizeEmail(Col(df, ColEmail)[i]) # Col(df, ColEmail)[i]
    /\ result.report.summary.total_issues_found >= 1
    /\ df = result.table

----------------------------------------------------------------------------
(* Duplicate identities, as reported *)

\* The issues of a report under the given category
IssuesOf(rep, rule, col) ==
    SelectSeq(ReportIssues(rep), LAMBDA x : x.category = <<rule, col>>)

\* The records those issues list as affected
AffectedBy(rep, rule, col) ==
    UNION {Range(IssuesOf(rep, rule, col)[i].affected_records)
           : i \in 1..Len(IssuesOf(rep, rule, col))}

\* Two cells are emails that are equal once lowercased and stripped
SameEmail(v, w) ==
    /\ v.k = "str"
    /\ w.k = "str"
    /\ Strip(Lower(v.s)) = Strip(Lower(w.s))

\* The records of a table whose email is shared with another record
SharedEmailRecords(t) ==
    {i \in 1..t.n : \E j \in 1..t.n :
        j # i /\ SameEmail(Col(t, ColEmail)[i], Col(t, ColEmail)[j])}

\* The canonical form of a phone value: E.164 when it is a valid number for
\* region US, otherwise its digits
CanonicalPhone(v) ==
    IF IsValidUS(Text(v)) THEN <<"+", "1">> \o NationalNumber(Text(v))
    ELSE DigitsOnly(Text(v))

\* Two cells are phone values with one canonical form
SamePhone(v, w) ==
    /\ ~IsNA(v)
    /\ ~IsNA(w)
    /\ CanonicalPhone(v) # << >>
    /\ CanonicalPhone(v) = CanonicalPhone(w)

\* The records of a table whose value in column c has the canonical form of
\* another record's value in that column
SharedPhoneRecords(t, c) ==
    {i \in 1..t.n : \E j \in 1..t.n :
        j # i /\ SamePhone(Col(t, c)[i], Col(t, c)[j])}

\* C11: records whose emails are equal after lowercasing and stripping are
\* in one duplicate group and in the affected_records of the "Duplicate
\* Email Addresses" issue; a record with an absent email is in no group.
C11_EmailCaseAndBlankInsensitive ==
    (IsReport(result) /\ HasCol(result.table, ColEmail)) =>
        LET t == result.table
            email == Col(t, ColEmail)
            found == IssuesOf(result.report, "Duplicate Email Addresses", NoCol)
            affected == AffectedBy(result.report, "Duplicate Email Addresses", NoCol)
        IN  /\ \A i, j \in 1..t.n :
                (i # j /\ SameEmail(email[i], email[j])) =>
                    /\ {i, j} \subseteq affected
                    /\ \E x \in 1..Len(found) :
                         \E g \in 1..Len(found[x].examples) :
                            /\ found[x].examples[g].key.s = Strip(Lower(email[i].s))
                            /\ found[x].examples[g].count =
                                  Cardinality({r \in 1..t.n : SameEmail(email[r], email[i])})
            /\ \A i \in 1..t.n : IsNA(email[i]) => i \notin affected

\* Two groups, and a record without email between them
C11_Witness ==
    /\ IsReport(result)
    /\ HasCol(result.table, ColEmail)
    /\ result.table.n = 5
    /\ Col(result.table, ColEmail) = <<EmailB, EmailA, NA, EmailA2, EmailB2>>
    /\ AffectedBy(result.report, "Duplicate Email Addresses", NoCol) = {1, 2, 4, 5}

\* C12: for a table with an email column there is exactly one HIGH
\* "Duplicate Email Addresses" issue when some normalized email is shared
\* and none otherwise; the one issue covers every group and its count is the
\* number of records whose normalized email another record shares.
C12_OneEmailIssueCountsSharers ==
    (IsReport(result) /\ HasCol(result.table, ColEmail)) =>
        LET t == result.table
            found == IssuesOf(result.report, "Duplicate Email Addresses", NoCol)
            shared == SharedEmailRecords(t)
        IN  IF shared = {} THEN found = << >>
            ELSE /\ Len(found) = 1
                 /\ found[1].severity = "HIGH"
                 /\ found[1].count = Cardinality(shared)
                 /\ Range(found[1].affected_records) = shared
                 /\ found[1].description[1] =
                       Cardinality({Strip(Lower(Col(t, ColEmail)[i].s)) : i \in shared})

\* Ten records, four of them with one email: count = 4
C12_Witness ==
    /\ IsReport(result)
    /\ result.table = SharedEmailTable(10, 4)
    /\ IssuesOf(result.report, "Duplicate Email Addresses", NoCol)[1].count = 4

\* C13: two values of one phone column with the same canonical form (E.164
\* when valid for region US, otherwise the digits) are flagged as duplicates
\* of each other, in one group.
C13_PhoneCanonicalDuplicates ==
    IsReport(result) =>
        LET t == result.table
        IN  \A c \in 1..Len(t.cols) :
              Contains(TxtPhone, Lower(t.cols[c])) =>
                LET phone == t.data[c]
                    found == IssuesOf(result.report, "Duplicate Phone Numbers", t.cols[c])
                IN  \A i, j \in 1..t.n :
                      (i # j /\ SamePhone(phone[i], phone[j])) =>
                        \E x \in 1..Len(found) :
                          /\ {i, j} \subseteq Range(found[x].affected_records)
                          /\ \E g \in 1..Len(found[x].examples) :
                               /\ found[x].examples[g].key.s = CanonicalPhone(phone[i])
                               /\ {i, j} \subseteq Range(found[x].examples[g].records)

\* "555-123-4567" and "5551234567" in one column, flagged together
C13_Witness ==
    /\ IsReport(result)
    /\ HasCol(result.table, ColPhone)
    /\ result.table.n = 2
    /\ Col(result.table, ColPhone) = <<Phone555, Phone555b>>
    /\ AffectedBy(result.report, "Duplicate Phone Numbers", ColPhone) = {1, 2}

----------------------------------------------------------------------------
(* Detectors without their columns *)

\* No issue of the report is under one of the rules
NoIssueOf(rep, rules) ==
    \A i \in 1..Len(ReportIssues(rep)) :
        ReportIssues(rep)[i].category[1] \notin rules

\* No issue of the report is under one of the rules for column c
NoIssueFor(rep, rules, c) ==
    \A i \in 1..Len(ReportIssues(rep)) :
        ~ /\ ReportIssues(rep)[i].category[1] \in rules
          /\ ReportIssues(rep)[i].category[2] = c

\* No cell of the column is a date or a number: nothing in it parses as a
\* date
NoDateIn(col) == \A i \in 1..Len(col) : col[i].k \in {"na", "str"}

\* Some column name satisfies P
SomeCol(t, P(_)) == \E c \in 1..Len(t.cols) : P(t.cols[c])

PhoneLike(c) == Contains(TxtPhone, Lower(c))
DateLike(c) ==
    \/ Contains(TxtDate, Lower(c))
    \/ Lower(c) \in {TxtDob, TxtBirthDate, TxtBirthdate}
JoinLike(c) ==
    \/ Contains(TxtJoin, Lower(c))
    \/ Contains(TxtHire, Lower(c))
    \/ Contains(TxtStart, Lower(c))
BirthLike(c) == Contains(TxtBirth, Lower(c)) \/ Contains(TxtDob, Lower(c))

\* C14: a detector whose column is missing from the table, or whose date
\* column holds nothing that parses as a date, adds no issue and raises no
\* error; a table without any column a detector looks for gets a report with
\* no issue, score 100 and validation_passed = true.
C14_StructuralSkip ==
    /\ (result.kind = "fault") =>
          \/ HasCol(result.table, ColEmail)
          \/ HasCol(result.table, ColAge)
          \/ /\ \E c \in 1..Len(result.table.cols) :
                   /\ BirthLike(result.table.cols[c])
                   /\ ~NoDateIn(result.table.data[c])
             /\ \E c \in 1..Len(result.table.cols) :
                   /\ JoinLike(result.table.cols[c])
                   /\ ~NoDateIn(result.table.data[c])
    /\ IsReport(result) =>
        LET t == result.table
            rep == result.report
        IN  /\ ~HasCol(t, ColEmail) =>
                  NoIssueOf(rep, {"Duplicate Email Addresses",
                                  "Complete Contact Information Overlap"})
            /\ ~SomeCol(t, PhoneLike) =>
                  NoIssueOf(rep, {"Duplicate Phone Numbers",
                                  "Complete Contact Information Overlap"})
            /\ ~HasCol(t, ColAge) =>
                  NoIssueOf(rep, {"Suspicious Age Rounding",
                                  "Excessive Age Clustering",
                                  "Age-Birthdate Inconsistency",
                                  "Unreasonably Young Ages",
                                  "Unreasonably Old Ages"})
            /\ ~SomeCol(t, BirthLike) =>
                  NoIssueOf(rep, {"Age-Birthdate Inconsistency",
                                  "Impossible Date Relationships",
                                  "Unreasonably Young Employees"})
            /\ ~SomeCol(t, JoinLike) =>
                  NoIssueOf(rep, {"Future Join Dates",
                                  "Join Dates Before Company Founding",
                                  "Impossible Date Relationships",
                                  "Unreasonably Young Employees",
                                  "Bulk Import Pattern Detection",
                                  "Unusually Long Employment Duration"})
            /\ ~SomeCol(t, DateLike) =>
                  NoIssueOf(rep, {"Suspicious Date Clustering - January 1st",
                                  "Excessive Date Clustering"})
            /\ \A c \in 1..Len(t.cols) :
                  NoDateIn(t.data[c]) =>
                      NoIssueFor(rep, {"Suspicious Date Clustering - January 1st",
                                       "Excessive Date Clustering",
                                       "Future Join Dates",
                                       "Join Dates Before Company Founding",
                                       "Bulk Import Pattern Detection"},
                                 t.cols[c])
            /\ (\A c \in 1..Len(t.cols) :
                    (BirthLike(t.cols[c]) \/ JoinLike(t.cols[c])) =>
                        NoDateIn(t.data[c])) =>
                  NoIssueOf(rep, {"Age-Birthdate Inconsistency",
                                  "Impossible Date Relationships",
                                  "Unreasonably Young Employees",
                                  "Unusually Long Employment Duration"})
            /\ (/\ ~HasCol(t, ColEmail)
                /\ ~HasCol(t, ColAge)
                /\ ~SomeCol(t, PhoneLike)
                /\ ~SomeCol(t, DateLike)
                /\ ~SomeCol(t, BirthLike)
                /\ ~SomeCol(t, JoinLike)) =>
                  /\ rep.summary.total_issues_found = 0
                  /\ rep.detailed_issues = << >>
                  /\ rep.summary.data_quality_score = 1000
                  /\ rep.validation_passed

\* Two records and no column for any detector, although the cells hold an
\* email, a phone number and a date
C14_Witness ==
    /\ IsReport(result)
    /\ result.table.cols = <<ColName, ColCity>>
    /\ result.table.n = 2
    /\ result.table.data[2] = <<EmailA, Date(2999, 1, 1)>>
    /\ result.report.summary.total_issues_found = 0

----------------------------------------------------------------------------
(* Business rules, as reported *)

\* The current date the business rules of the returned run have read
ReadDate(r) == Now(r.reads[1])

\* C15: for every join-like column, a record is in the "Future Join Dates"
\* issue of the column exactly when its value is a date after the current
\* date, and in its "Join Dates Before Company Founding" issue exactly when
\* its value is a date before January 1 of the founding year; both issues
\* are HIGH; absent and unparseable values are in neither.
C15_JoinDateIssues ==
    IsReport(result) =>
        LET t == result.table
            rep == result.report
        IN  \A c \in 1..Len(t.cols) :
              JoinLike(t.cols[c]) =>
                LET future == IssuesOf(rep, "Future Join Dates", t.cols[c])
                    early == IssuesOf(rep, "Join Dates Before Company Founding",
                                      t.cols[c])
                IN  /\ \A i \in 1..t.n :
                        /\ i \in AffectedBy(rep, "Future Join Dates", t.cols[c])
                             <=> /\ t.data[c][i].k = "date"
                                 /\ Day(t.data[c][i]) > ReadDate(result)
                        /\ i \in AffectedBy(rep, "Join Dates Before Company Founding",
                                            t.cols[c])
                             <=> /\ t.data[c][i].k = "date"
                                 /\ Day(t.data[c][i])
                                       < DayNumber(result.founding, 1, 1)
                    /\ Len(future) <= 1
                    /\ Len(early) <= 1
                    /\ \A x \in 1..Len(future) :
                          future[x].severity = "HIGH" /\ future[x].count >= 1
                    /\ \A x \in 1..Len(early) :
                          early[x].severity = "HIGH" /\ early[x].count >= 1

----------------------------------------------------------------------------
(* Phone columns, as reported *)

\* C17: every column whose name contains "phone", in any letter case, is
\* examined by itself: it has one HIGH issue under its own name exactly when
\* two of its records share a canonical value, that issue lists exactly the
\* records that share a value inside the column, and no other column has a
\* phone-duplicate issue.
C17_PhoneColumnsIndependent ==
    IsReport(result) =>
        LET t == result.table
            rep == result.report
        IN  /\ \A c \in 1..Len(t.cols) :
                LET found == IssuesOf(rep, "Duplicate Phone Numbers", t.cols[c])
                    shared == SharedPhoneRecords(t, t.cols[c])
                IN  IF PhoneLike(t.cols[c]) /\ shared # {}
                    THEN /\ Len(found) = 1
                         /\ found[1].severity = "HIGH"
                         /\ Range(found[1].affected_records) = shared
                    ELSE found = << >>
            /\ \A i \in 1..Len(ReportIssues(rep)) :
                  ReportIssues(rep)[i].category[1] = "Duplicate Phone Numbers" =>
                      \E c \in 1..Len(t.cols) :
                          ReportIssues(rep)[i].category[2] = t.cols[c]

\* One value in both records of phone and, written otherwise, in one record
\* of Work_Phone: an issue for phone, none for Work_Phone
C17_Witness ==
    /\ IsReport(result)
    /\ result.table.cols = <<ColPhone, ColWorkPhone>>
    /\ result.table.data = << <<Phone555, Phone555>>, <<Phone555b, Phone415>> >>
    /\ Len(IssuesOf(result.report, "Duplicate Phone Numbers", ColPhone)) = 1
    /\ IssuesOf(result.report, "Duplicate Phone Numbers", ColWorkPhone) = << >>

\* C18: a phone value without any digit, like an absent one, is left out of
\* the comparison: records that hold such values are in no phone-duplicate
\* issue of the column, however many they are, and normalizing them raises
\* nothing.
C18_DigitFreePhoneIsAbsent ==
    /\ (/\ result.kind # "none"
        /\ ~HasCol(result.table, ColEmail)
        /\ ~HasCol(result.table, ColAge)
        /\ ~SomeCol(result.table, BirthLike)) => IsReport(result)
    /\ IsReport(result) =>
        LET t == result.table
        IN  \A c \in 1..Len(t.cols) :
              PhoneLike(t.cols[c]) =>
                 \A i \in 1..t.n :
                    (IsNA(t.data[c][i]) \/ DigitsOnly(Text(t.data[c][i])) = << >>) =>
                        i \notin AffectedBy(result.report, "Duplicate Phone Numbers",
                                            t.cols[c])

\* Two records with "n/a" in a phone column that is not reported
C18_Witness ==
    /\ IsReport(result)
    /\ HasCol(result.table, ColPhone)
    /\ Col(result.table, ColPhone) = <<PhoneNone, PhoneNone>>
    /\ IssuesOf(result.report, "Duplicate Phone Numbers", ColPhone) = << >>

----------------------------------------------------------------------------
(* Contact overlap, as reported *)

\* C19: the MEDIUM "Complete Contact Information Overlap" issue, one for
\* all groups, holds an email group for a phone column only when every
\* record of the group has a phone value in that column and all those values
\* are identical; a group with an absent or a different phone value is not
\* in it.
C19_OverlapNeedsSharedPhone ==
    IsReport(result) =>
        LET t == result.table
            found == IssuesOf(result.report,
                              "Complete Contact Information Overlap", NoCol)
        IN  /\ Len(found) <= 1
            /\ \A x \in 1..Len(found) :
                 /\ found[x].severity = "MEDIUM"
                 /\ \A e \in 1..Len(found[x].examples) :
                      LET overlap == found[x].examples[e]
                          phone == Col(t, overlap.phone_column)
                      IN  \A r \in 1..Len(overlap.indices) :
                            /\ ~IsNA(phone[overlap.indices[r]])
                            /\ phone[overlap.indices[r]] = overlap.phone

\* C20: contact overlap groups the records by normalized email: records
\* whose emails are equal after lowercasing and stripping and that all hold
\* one identical phone value in a phone column are in the "Complete Contact
\* Information Overlap" issue.
C20_OverlapGroupsByNormalizedEmail ==
    (IsReport(result) /\ HasCol(result.table, ColEmail)) =>
        LET t == result.table
            email == Col(t, ColEmail)
            group(i) == {r \in 1..t.n : SameEmail(email[r], email[i])}
        IN  \A i \in 1..t.n : \A c \in 1..Len(t.cols) :
               (/\ PhoneLike(t.cols[c])
                /\ Cardinality(group(i)) > 1
                /\ \A r \in group(i) :
                      ~IsNA(t.data[c][r]) /\ t.data[c][r] = t.data[c][i]) =>
                   group(i) \subseteq
                       AffectedBy(result.report,
                                  "Complete Contact Information Overlap", NoCol)

----------------------------------------------------------------------------
(* Patterns, as reported *)

\* C21: the MEDIUM "Suspicious Age Rounding" issue is in the report exactly
\* when the table has a column named age with a non-absent value and more
\* than 40% of the non-absent ages are multiples of 5; it lists exactly the
\* records with such an age and shows at most 10 of them.
C21_AgeRounding ==
    IsReport(result) =>
        LET t == result.table
            found == IssuesOf(result.report, "Suspicious Age Rounding", NoCol)
            age == Col(t, ColAge)
            present == {i \in 1..t.n : ~IsNA(age[i])}
            rounded == {i \in present : age[i].v % 5 = 0}
        IN  IF /\ HasCol(t, ColAge)
               /\ present # {}
               /\ 5 * Cardinality(rounded) > 2 * Cardinality(present)
            THEN /\ Len(found) = 1
                 /\ found[1].severity = "MEDIUM"
                 /\ Range(found[1].affected_records) = rounded
                 /\ Len(found[1].examples) <= 10
                 /\ Range(found[1].examples) \subseteq rounded
            ELSE found = << >>

\* The ages 20, 25, 30, 35, 20, 25, 30, 35, 20, 25
C21_Witness ==
    /\ IsReport(result)
    /\ result.table = NumTable(ColAge, <<20, 25, 30, 35, 20, 25, 30, 35, 20, 25>>)
    /\ AffectedBy(result.report, "Suspicious Age Rounding", NoCol) = 1..10

\* C22: for every date-like column, over the values that parse as dates:
\* the MEDIUM January-1st issue is in the report exactly when more than 20%
\* of them are a January 1st, and the MEDIUM excessive-clustering issue
\* exactly when the most frequent date is more than 5% of them and there
\* are more than 20 distinct dates; one does not depend on the other.
C22_DateChecksIndependent ==
    IsReport(result) =>
        LET t == result.table
            rep == result.report
        IN  \A c \in 1..Len(t.cols) :
              LET col == t.data[c]
                  parsed == {i \in 1..t.n : ~IsNA(ToDatetime(col[i]))}
                  jan1 == {i \in parsed : col[i].m = 1 /\ col[i].d = 1}
                  days == {Day(col[i]) : i \in parsed}
                  frequent == \E d \in days :
                      20 * Cardinality({i \in parsed : Day(col[i]) = d})
                          > Cardinality(parsed)
                  january == IssuesOf(rep, "Suspicious Date Clustering - January 1st",
                                      t.cols[c])
                  cluster == IssuesOf(rep, "Excessive Date Clustering", t.cols[c])
              IN  /\ IF DateLike(t.cols[c]) /\ 5 * Cardinality(jan1) > Cardinality(parsed)
                     THEN Len(january) = 1 /\ january[1].severity = "MEDIUM"
                     ELSE january = << >>
                  /\ IF /\ DateLike(t.cols[c])
                        /\ frequent
                        /\ Cardinality(days) > 20
                     THEN Len(cluster) = 1 /\ cluster[1].severity = "MEDIUM"
                     ELSE cluster = << >>

\* Both issues for one column in one report
C22_Witness ==
    /\ IsReport(result)
    /\ result.table = DatesTable(21, 5)
    /\ Len(IssuesOf(result.report, "Suspicious Date Clustering - January 1st",
                    ColDob)) = 1
    /\ Len(IssuesOf(result.report, "Excessive Date Clustering", ColDob)) = 1

----------------------------------------------------------------------------
(* Several birth-like and join-like columns *)

\* The cells of the first column of t whose name satisfies P
FirstCol(t, P(_)) ==
    t.data[CHOOSE c \in 1..Len(t.cols) :
              P(t.cols[c]) /\ \A b \in 1..(c - 1) : ~P(t.cols[b])]

\* C24: two tables with the same columns that agree on their first
\* birth-like and their first join-like column get the same "Impossible
\* Date Relationships" and the same "Unreasonably Young Employees" issues,
\* whatever their other birth-like and join-like columns hold.
C24_FirstColumnsDecide ==
    (/\ IsReport(last)
     /\ IsReport(result)
     /\ last.table.cols = result.table.cols
     /\ last.table.n = result.table.n
     /\ SomeCol(result.table, BirthLike)
     /\ SomeCol(result.table, JoinLike)
     /\ FirstCol(last.table, BirthLike) = FirstCol(result.table, BirthLike)
     /\ FirstCol(last.table, JoinLike) = FirstCol(result.table, JoinLike)) =>
        \A rule \in {"Impossible Date Relationships",
                     "Unreasonably Young Employees"} :
            /\ Len(IssuesOf(last.report, rule, NoCol))
                  = Len(IssuesOf(result.report, rule, NoCol))
            /\ AffectedBy(last.report, rule, NoCol)
                  = AffectedBy(result.report, rule, NoCol)

\* Born 2000 and joined 2020 by the first columns, where the other columns
\* say born 2012 or hired 1980 in one table and nothing in the other
C24_Witness ==
    /\ IsReport(last)
    /\ IsReport(result)
    /\ last.table = TableOfRows(<<ColDob, ColBirthdate, ColJoinDate, ColHired>>,
                       << <<Date(2000, 1, 1), Date(2012, 1, 1),
                            Date(2020, 1, 1), Date(1980, 1, 1)>> >>)
    /\ result.table = TableOfRows(<<ColDob, ColBirthdate, ColJoinDate, ColHired>>,
                         << <<Date(2000, 1, 1), NA, Date(2020, 1, 1), NA>> >>)
    /\ AffectedBy(last.report, "Unreasonably Young Employees", NoCol) = {}
    /\ AffectedBy(result.report, "Impossible Date Relationships", NoCol) = {}

----------------------------------------------------------------------------
(* Contextual integrity, as reported *)

\* The current date the contextual rules of the returned run have read
ContextDate(r) == Now(r.reads[2])

\* C25: a record is in the MEDIUM "Unusually Long Employment Duration"
\* issue exactly when its value in the first join-like column parses as a
\* date and the days from it to now, divided by 365.25, exceed 50; the issue
\* is there at most once. A fault inside the detector -- the difference to
\* now of some join date overflows -- leaves the report without the issue,
\* and no run ends in a fault once the business rules have been passed.
C25_EmploymentDuration ==
    /\ (result.kind = "fault") => Len(result.reads) <= 1
    /\ IsReport(result) =>
        LET t == result.table
            found == IssuesOf(result.report,
                              "Unusually Long Employment Duration", NoCol)
            join == FirstCol(t, JoinLike)
            long == {i \in 1..t.n :
                       /\ ~IsNA(ToDatetime(join[i]))
                       /\ 4 * (ContextDate(result) - Day(join[i])) > 50 * 1461}
            faulted == \E i \in 1..t.n :
                          /\ ~IsNA(ToDatetime(join[i]))
                          /\ ContextDate(result) - Day(join[i]) > 106751
        IN  IF SomeCol(t, JoinLike) /\ long # {} /\ ~faulted
            THEN /\ Len(found) = 1
                 /\ found[1].severity = "MEDIUM"
                 /\ Range(found[1].affected_records) = long
            ELSE found = << >>

\* Read on 2025-06-30: 18263 days are too long, 18262 are not, and the 1970
\* of the second join-like column does not count
C25_Witness ==
    /\ IsReport(result)
    /\ result.table = TableOfRows(<<ColStart, ColJoinDate>>,
                         << <<Date(1975, 7, 1), Date(1970, 1, 1)>>,
                            <<Date(1975, 6, 30), Date(1970, 1, 1)>> >>)
    /\ ContextDate(result) = DayNumber(2025, 6, 30)
    /\ AffectedBy(result.report, "Unusually Long Employment Duration", NoCol) = {2}

\* A column as pd.to_datetime reads it
ParsedColumn(t, c) == [i \in 1..t.n |-> ToDatetime(t.data[c][i])]

\* The calendar month of a date
MonthOfCell(v) == <<v.y, v.m>>

\* The records of a parsed column that hold a date
Dated(parsed) == {i \in DOMAIN parsed : ~IsNA(parsed[i])}

\* The months in which the dates of a parsed column fall
MonthsOf(parsed) == {MonthOfCell(parsed[i]) : i \in Dated(parsed)}

\* The records of a parsed column dated in month p
DatedIn(parsed, p) == {i \in Dated(parsed) : MonthOfCell(parsed[i]) = p}

\* The months of a parsed column whose count exceeds the mean of the
\* per-month counts by more than two sample standard deviations: with k
\* months, S dates and Q the sum of the squared counts (the number of ordered
\* pairs of dates of one month), k*count - S > 0 and
\* (k*count - S)^2 * (k - 1) > 4 * k * (k*Q - S*S)
SpikesOf(parsed) ==
    LET dated == Dated(parsed)
        k == Cardinality(MonthsOf(parsed))
        S == Cardinality(dated)
        Q == Cardinality({x \in dated \X dated :
                 MonthOfCell(parsed[x[1]]) = MonthOfCell(parsed[x[2]])})
        spread == 4 * k * (k * Q - S * S)
        d(p) == k * Cardinality(DatedIn(parsed, p)) - S
    IN  {p \in MonthsOf(parsed) :
            LET dp == d(p) IN dp > 0 /\ dp * dp * (k - 1) > spread}

\* C26: for every join-like column, if some month of the column is a spike
\* the report has exactly one LOW "Bulk Import Pattern Detection" issue for
\* it, whose count is the sum of the spike months' counts, whose affected
\* records are the records dated in a spike month, and whose examples are
\* one per spike month, five at most; if no month is a spike it has none.
C26_BulkImportSpikes ==
    IsReport(result) =>
        LET t == result.table
        IN  \A c \in 1..Len(t.cols) : JoinLike(t.cols[c]) =>
                LET found == IssuesOf(result.report,
                                 "Bulk Import Pattern Detection", t.cols[c])
                    parsed == ParsedColumn(t, c)
                    spikes == SpikesOf(parsed)
                    hit == UNION {DatedIn(parsed, p) : p \in spikes}
                IN  IF spikes # {}
                    THEN /\ Len(found) = 1
                         /\ found[1].severity = "LOW"
                         /\ found[1].count = Cardinality(hit)
                         /\ Range(found[1].affected_records) = hit
                         /\ Len(found[1].affected_records) = Cardinality(hit)
                         /\ LET ex == found[1].examples
                                month(e) == <<ex[e].period \div 12,
                                              1 + (ex[e].period % 12)>>
                            IN  /\ Len(ex) = IF Cardinality(spikes) < 5
                                             THEN Cardinality(spikes) ELSE 5
                                /\ \A e \in 1..Len(ex) :
                                       /\ month(e) \in spikes
                                       /\ ex[e].count =
                                            Cardinality(DatedIn(parsed, month(e)))
                                       /\ \A f \in 1..(e - 1) :
                                              ex[f].period # ex[e].period
                    ELSE found = << >>

\* Six busy months of thirty-six: twelve records affected, five examples
C26_Witness ==
    /\ IsReport(result)
    /\ result.table = MonthsTable(Counts(36, {1, 7, 13, 19, 25, 31}, 2))
    /\ LET found == IssuesOf(result.report,
                             "Bulk Import Pattern Detection", ColJoinDate)
       IN  /\ Len(found) = 1
           /\ found[1].count = 12
           /\ Len(found[1].examples) = 5

\* C30: the report has a "Bulk Import Pattern Detection" issue for a column
\* only if the dates of the column fall in six months or more.
C30_SpikeNeedsSixMonths ==
    IsReport(result) =>
        LET t == result.table
        IN  \A c \in 1..Len(t.cols) :
                IssuesOf(result.report, "Bulk Import Pattern Detection",
                         t.cols[c]) # << >>
                    => Cardinality(MonthsOf(ParsedColumn(t, c))) >= 6

\* Exactly six months, one of them with two dates, and an issue
C30_Witness ==
    /\ IsReport(result)
    /\ result.table = BulkTable(2020, 6, 1)
    /\ IssuesOf(result.report, "Bulk Import Pattern Detection",
                ColJoinDate) # << >>

\* Five months, one of them with three dates, and no issue
C30_WitnessFive ==
    /\ IsReport(result)
    /\ result.table = MonthsTable(Counts(5, {2}, 3))
    /\ NoIssueOf(result.report, {"Bulk Import Pattern Detection"})

\* C27: the records with an age below 16 are the affected records of a HIGH
\* "Unreasonably Young Ages" issue and those with an age above 80 of a
\* MEDIUM "Unreasonably Old Ages" issue; each issue is there exactly when
\* it has a record, and a record of age 16, of age 80, of an age in between
\* or of no age is in neither.
C27_AgeRanges ==
    IsReport(result) =>
        LET t == result.table
            age == Col(t, ColAge)
            aged == IF HasCol(t, ColAge)
                    THEN {i \in 1..t.n : ~IsNA(age[i])} ELSE {}
            young == {i \in aged : age[i].v < 16}
            old == {i \in aged : age[i].v > 80}
            youngIssues == IssuesOf(result.report,
                                    "Unreasonably Young Ages", NoCol)
            oldIssues == IssuesOf(result.report,
                                  "Unreasonably Old Ages", NoCol)
        IN  /\ IF young # {}
               THEN /\ Len(youngIssues) = 1
                    /\ youngIssues[1].severity = "HIGH"
                    /\ Range(youngIssues[1].affected_records) = young
               ELSE youngIssues = << >>
            /\ IF old # {}
               THEN /\ Len(oldIssues) = 1
                    /\ oldIssues[1].severity = "MEDIUM"
                    /\ Range(oldIssues[1].affected_records) = old
               ELSE oldIssues = << >>

\* Ages 15 and 81: both issues, of one record each
C27_Witness ==
    /\ IsReport(result)
    /\ result.table = NumTable(ColAge, <<15, 81>>)
    /\ AffectedBy(result.report, "Unreasonably Young Ages", NoCol) = {1}
    /\ AffectedBy(result.report, "Unreasonably Old Ages", NoCol) = {2}

\* Ages 16 and 80: neither issue
C27_WitnessLimits ==
    /\ IsReport(result)
    /\ result.table = NumTable(ColAge, <<16, 80>>)
    /\ NoIssueOf(result.report,
                 {"Unreasonably Young Ages", "Unreasonably Old Ages"})

\* A join in 1700 beside one in 1970: the detector faults, the run returns
\* its report and the report has no employment issue
C25_WitnessCaught ==
    /\ IsReport(result)
    /\ result.table = TableOfRows(<<ColStart, ColJoinDate>>,
                         << <<Date(1700, 1, 1), Date(1970, 1, 1)>>,
                            <<Date(1975, 6, 30), Date(1970, 1, 1)>> >>)
    /\ NoIssueOf(result.report, {"Unusually Long Employment Duration"})

----------------------------------------------------------------------------
(* One validator, many calls *)

\* What a validator that has never been called finds in table t, with
\* founding year y and the current dates of the clock values in reads
FreshIssues(t, y, reads_) ==
    detect_duplicate_identities(t)
    \o analyze_data_patterns(t)
    \o validate_business_logic(t, Now(reads_[1]), y)
    \o check_contextual_integrity(t, Now(reads_[2]))

\* C28: whatever calls the validator of the harness has served before, the
\* report it returns is, but for the timestamp, the report of a validator
\* that has never been called, for the same table, founding year and current
\* dates; its total_issues_found is the number of issues of this call alone.
C28_NoIssueLeaks ==
    (caller = "harness" /\ IsReport(result)) =>
        LET fresh == FreshIssues(result.table, result.founding, result.reads)
        IN  /\ Untimed(result.report)
                 = Untimed(generate_validation_report(result.table, fresh,
                                                      Now(1)))
            /\ result.report.summary.total_issues_found = Len(fresh)
            /\ Len(ReportIssues(result.report)) = Len(fresh)

\* A call that raised with an issue on the list, then a call that returned
\* a report of one issue
C28_Witness ==
    /\ caller = "harness"
    /\ last.kind = "fault"
    /\ last.table = TableOfRows(<<ColEmail, ColAge>>,
                                << <<EmailA, Junk>>, <<EmailA, Num(20)>> >>)
    /\ IsReport(result)
    /\ result.table.n = 1
    /\ result.report.summary.total_issues_found = 1

====
